---- MODULE Spec2Model ----
(***************************************************************************)
(* gotesla: the Powerwall gateway vitals decoder (GetVitals, powerwall.go) *)
(* as a state machine.  One call of GetVitals is: fetch the body, unmarshal *)
(* it into a DevicesWithVitals message, then one step per device entry of   *)
(* the for loop at powerwall.go:702, then the return.                       *)
(*                                                                         *)
(* Conventions of the model:                                               *)
(*  - an optional protobuf field (a Go pointer) is a sequence of length 0  *)
(*    (nil) or 1 (set);                                                    *)
(*  - the din, the one string the code inspects, is a sequence of          *)
(*    characters; every other Go string is a TLA+ string;                  *)
(*  - a float64 is an integer number of tenths (235 is 23.5);              *)
(*  - a line printed with fmt.Printf is the pair <<format, argument>>.     *)
(***************************************************************************)
EXTENDS Integers, Sequences, FiniteSets, TLC

VARIABLES
    body,      \* what GetPowerwall and the wire gave this call (input)
    pc,        \* "idle", "loop", "returned", "panic": position in GetVitals
    devices,   \* devices.Devices, the unmarshalled message
    numd,      \* numd := len(devices.Devices)
    i,         \* loop index of the for loop at powerwall.go:702
    vd,        \* var vd VitalDevices
    out,       \* the returned *VitalDevices: <<>> is nil
    err,       \* the returned error: <<>> is nil
    stdout,    \* lines printed by the current call
    outcomes,  \* history: where each processed entry was routed
    calls,     \* number of GetVitals calls completed before this one
    first,     \* history: a remembered earlier call, its body and its result
    din,       \* a din under classification (SpecDin)
    cls,       \* the class the if/else-if chain chose for din (SpecDin)
    now,       \* time.Now(), in ticks of 1/Second seconds since the epoch
    disk,      \* the directory of the token cache: path names and files
    proc,      \* each process's position in a token cache call
    hist,      \* history of the token cache: last save, overlapping saves
    http,      \* the last call of an HTTP helper or typed getter
    chk,       \* the checktoken command: arguments, verdict, exit status
    sc,        \* scimport: position in main, token in use, requests made
    pw         \* pwimport: position in main, -poll, cycles and pauses

vars == <<body, pc, devices, numd, i, vd, out, err, stdout, outcomes, calls,
          first, din, cls, now, disk, proc, hist, http, chk, sc, pw>>

\* The state of GetVitals and of the din classification.
vitalsVars == <<body, pc, devices, numd, i, vd, out, err, stdout, outcomes,
                calls, first, din, cls>>

\* The state of the token cache, the HTTP helpers and the commands.
cacheVars == <<disk, proc, hist>>

commandVars == <<now, http, chk, sc, pw>>

\* The programs below GetVitals are not running.
CacheAtRest == disk = <<>> /\ proc = <<>> /\ hist = <<>>

CommandsAtRest == now = 0 /\ http = <<>> /\ chk = <<>> /\ sc = <<>> /\ pw = <<>>

(***************************************************************************)
(* Bounds of the model.                                                    *)
(***************************************************************************)
MaxDevices == 2
MaxRepeatDevices == 2
MaxCalls == 2
MaxSuffix == 1

(***************************************************************************)
(* Strings.                                                                *)
(***************************************************************************)
\* strings.Index(s, substr): the index of the first instance of substr in s,
\* or -1 if substr is not present in s.
Index(s, substr) ==
    LET at == {k \in 0..(Len(s) - Len(substr)) :
                  SubSeq(s, k + 1, k + Len(substr)) = substr}
    IN IF at = {} THEN -1 ELSE CHOOSE k \in at : \A m \in at : k <= m

\* The chain as it would be with the PVS test shortened to PV, which PVAC
\* dins pass too.
KnownPrefixesOverlap ==
    << <<"S","T","S","T","S","M">>, <<"T","E","S","Y","N","C">>,
       <<"T","E","M","S","A">>, <<"T","E","T","H","C">>,
       <<"T","E","P","O","D">>, <<"T","E","P","I","N","V">>,
       <<"P","V","A","C">>, <<"P","V">>, <<"T","E","S","L","A">>,
       <<"N","E","U","R","I","O">> >>

\* The prefixes of the if/else-if chain of GetVitals, in the order tested.
KnownPrefixes ==
    << <<"S","T","S","T","S","M">>, <<"T","E","S","Y","N","C">>,
       <<"T","E","M","S","A">>, <<"T","E","T","H","C">>,
       <<"T","E","P","O","D">>, <<"T","E","P","I","N","V">>,
       <<"P","V","A","C">>, <<"P","V","S">>, <<"T","E","S","L","A">>,
       <<"N","E","U","R","I","O">> >>

\* The name of the branch each prefix selects.
ClassNames ==
    << "STSTSM", "TESYNC", "TEMSA", "TETHC", "TEPOD", "TEPINV", "PVAC", "PVS",
       "TESLA", "NEURIO" >>

\* The branch the chain takes for a din: the first test that succeeds, or
\* "unknown" when the chain falls off its end (there is no final else).
RECURSIVE Chain(_, _)
Chain(d, k) ==
    IF k > Len(KnownPrefixes) THEN "unknown"
    ELSE IF Index(d, KnownPrefixes[k]) = 0 THEN ClassNames[k]
    ELSE Chain(d, k + 1)

ClassOf(d) == Chain(d, 1)

(***************************************************************************)
(* The per-class vital tables: <<vital name, struct field, accessor>>.     *)
(***************************************************************************)
STSTSMVitals ==
    << <<"STSTSM-Location", "STSTSMLocation", "string">> >>

TESYNCVitals ==
    << <<"ISLAND_VL1N_Main", "ISLANDVL1NMain", "float">>,
       <<"ISLAND_FreqL1_Main", "ISLANDFreqL1Main", "float">>,
       <<"ISLAND_VL1N_Load", "ISLANDVL1NLoad", "float">>,
       <<"ISLAND_FreqL1_Load", "ISLANDFreqL1Load", "float">>,
       <<"ISLAND_PhaseL1_Main_Load", "ISLANDPhaseL1MainLoad", "float">>,
       <<"ISLAND_VL2N_Main", "ISLANDVL2NMain", "float">>,
       <<"ISLAND_FreqL2_Main", "ISLANDFreqL2Main", "float">>,
       <<"ISLAND_VL2N_Load", "ISLANDVL2NLoad", "float">>,
       <<"ISLAND_FreqL2_Load", "ISLANDFreqL2Load", "float">>,
       <<"ISLAND_PhaseL2_Main_Load", "ISLANDPhaseL2MainLoad", "float">>,
       <<"ISLAND_VL3N_Main", "ISLANDVL3NMain", "float">>,
       <<"ISLAND_FreqL3_Main", "ISLANDFreqL3Main", "float">>,
       <<"ISLAND_VL3N_Load", "ISLANDVL3NLoad", "float">>,
       <<"ISLAND_FreqL3_Load", "ISLANDFreqL3Load", "float">>,
       <<"ISLAND_PhaseL3_Main_Load", "ISLANDPhaseL3MainLoad", "float">>,
       <<"ISLAND_L1L2PhaseDelta", "ISLANDL1L2PhaseDelta", "float">>,
       <<"ISLAND_L1L3PhaseDelta", "ISLANDL1L3PhaseDelta", "float">>,
       <<"ISLAND_L2L3PhaseDelta", "ISLANDL2L3PhaseDelta", "float">>,
       <<"ISLAND_GridState", "ISLANDGridState", "string">>,
       <<"ISLAND_L1MicrogridOk", "ISLANDL1MicrogridOk", "bool">>,
       <<"ISLAND_L2MicrogridOk", "ISLANDL2MicrogridOk", "bool">>,
       <<"ISLAND_L3MicrogridOk", "ISLANDL3MicrogridOk", "bool">>,
       <<"ISLAND_ReadyForSynchronization", "ISLANDReadyForSynchronization", "bool">>,
       <<"ISLAND_GridConnected", "ISLANDGridConnected", "bool">>,
       <<"SYNC_ExternallyPowered", "SYNCExternallyPowered", "bool">>,
       <<"SYNC_SiteSwitchEnabled", "SYNCSiteSwitchEnabled", "bool">>,
       <<"METER_X_CTA_InstRealPower", "METERXCTAInstRealPower", "float">>,
       <<"METER_X_CTB_InstRealPower", "METERXCTBInstRealPower", "float">>,
       <<"METER_X_CTC_InstRealPower", "METERXCTCInstRealPower", "float">>,
       <<"METER_X_CTA_InstReactivePower", "METERXCTAInstReactivePower", "float">>,
       <<"METER_X_CTB_InstReactivePower", "METERXCTBInstReactivePower", "float">>,
       <<"METER_X_CTC_InstReactivePower", "METERXCTCInstReactivePower", "float">>,
       <<"METER_X_LifetimeEnergyImport", "METERXLifetimeEnergyImport", "float">>,
       <<"METER_X_LifetimeEnergyExport", "METERXLifetimeEnergyExport", "float">>,
       <<"METER_X_VL1N", "METERXVL1N", "float">>,
       <<"METER_X_VL2N", "METERXVL2N", "float">>,
       <<"METER_X_VL3N", "METERXVL3N", "float">>,
       <<"METER_X_CTA_I", "METERXCTAI", "float">>,
       <<"METER_X_CTB_I", "METERXCTBI", "float">>,
       <<"METER_X_CTC_I", "METERXCTCI", "float">>,
       <<"METER_Y_CTA_InstRealPower", "METERYCTAInstRealPower", "float">>,
       <<"METER_Y_CTB_InstRealPower", "METERYCTBInstRealPower", "float">>,
       <<"METER_Y_CTC_InstRealPower", "METERYCTCInstRealPower", "float">>,
       <<"METER_Y_CTA_InstReactivePower", "METERYCTAInstReactivePower", "float">>,
       <<"METER_Y_CTB_InstReactivePower", "METERYCTBInstReactivePower", "float">>,
       <<"METER_Y_CTC_InstReactivePower", "METERYCTCInstReactivePower", "float">>,
       <<"METER_Y_LifetimeEnergyImport", "METERYLifetimeEnergyImport", "float">>,
       <<"METER_Y_LifetimeEnergyExport", "METERYLifetimeEnergyExport", "float">>,
       <<"METER_Y_VL1N", "METERYVL1N", "float">>,
       <<"METER_Y_VL2N", "METERYVL2N", "float">>,
       <<"METER_Y_VL3N", "METERYVL3N", "float">>,
       <<"METER_Y_CTA_I", "METERYCTAI", "float">>,
       <<"METER_Y_CTB_I", "METERYCTBI", "float">>,
       <<"METER_Y_CTC_I", "METERYCTCI", "float">> >>

TEMSAVitals ==
    << <<"ISLAND_VL1N_Main", "ISLANDVL1NMain", "float">>,
       <<"ISLAND_FreqL1_Main", "ISLANDFreqL1Main", "float">>,
       <<"ISLAND_VL1N_Load", "ISLANDVL1NLoad", "float">>,
       <<"ISLAND_FreqL1_Load", "ISLANDFreqL1Load", "float">>,
       <<"ISLAND_PhaseL1_Main_Load", "ISLANDPhaseL1MainLoad", "float">>,
       <<"ISLAND_VL2N_Main", "ISLANDVL2NMain", "float">>,
       <<"ISLAND_FreqL2_Main", "ISLANDFreqL2Main", "float">>,
       <<"ISLAND_VL2N_Load", "ISLANDVL2NLoad", "float">>,
       <<"ISLAND_FreqL2_Load", "ISLANDFreqL2Load", "float">>,
       <<"ISLAND_PhaseL2_Main_Load", "ISLANDPhaseL2MainLoad", "float">>,
       <<"ISLAND_VL3N_Main", "ISLANDVL3NMain", "float">>,
       <<"ISLAND_FreqL3_Main", "ISLANDFreqL3Main", "float">>,
       <<"ISLAND_VL3N_Load", "ISLANDVL3NLoad", "float">>,
       <<"ISLAND_FreqL3_Load", "ISLANDFreqL3Load", "float">>,
       <<"ISLAND_PhaseL3_Main_Load", "ISLANDPhaseL3MainLoad", "float">>,
       <<"ISLAND_L1L2PhaseDelta", "ISLANDL1L2PhaseDelta", "float">>,
       <<"ISLAND_L1L3PhaseDelta", "ISLANDL1L3PhaseDelta", "float">>,
       <<"ISLAND_L2L3PhaseDelta", "ISLANDL2L3PhaseDelta", "float">>,
       <<"ISLAND_GridState", "ISLANDGridState", "string">>,
       <<"ISLAND_L1MicrogridOk", "ISLANDL1MicrogridOk", "bool">>,
       <<"ISLAND_L2MicrogridOk", "ISLANDL2MicrogridOk", "bool">>,
       <<"ISLAND_L3MicrogridOk", "ISLANDL3MicrogridOk", "bool">>,
       <<"ISLAND_ReadyForSynchronization", "ISLANDReadyForSynchronization", "bool">>,
       <<"ISLAND_GridConnected", "ISLANDGridConnected", "bool">>,
       <<"METER_Z_CTA_InstRealPower", "METERZCTAInstRealPower", "float">>,
       <<"METER_Z_CTB_InstRealPower", "METERZCTBInstRealPower", "float">>,
       <<"METER_Z_CTA_InstReactivePower", "METERZCTAInstReactivePower", "float">>,
       <<"METER_Z_CTB_InstReactivePower", "METERZCTBInstReactivePower", "float">>,
       <<"METER_Z_LifetimeEnergyNetImport", "METERZLifetimeEnergyNetImport", "float">>,
       <<"METER_Z_LifetimeEnergyNetExport", "METERZLifetimeEnergyNetExport", "float">>,
       <<"METER_Z_VL1G", "METERZVL1G", "float">>,
       <<"METER_Z_VL2G", "METERZVL2G", "float">>,
       <<"METER_Z_CTA_I", "METERZCTAI", "float">>,
       <<"METER_Z_CTB_I", "METERZCTBI", "float">> >>

TETHCVitals ==
    << <<"THC_State", "THCState", "string">>,
       <<"THC_AmbientTemp", "THCAmbientTemp", "float">> >>

TEPODVitals ==
    << <<"POD_nom_energy_to_be_charged", "PODNomEnergyToBeCharged", "float">>,
       <<"POD_nom_energy_remaining", "PODNomEnergyRemaining", "float">>,
       <<"POD_nom_full_pack_energy", "PODNomFullPackEnergy", "float">>,
       <<"POD_available_charge_power", "PODAvailableChargePower", "float">>,
       <<"POD_available_dischg_power", "PODAvailableDischgPower", "float">>,
       <<"POD_state", "PODState", "string">>,
       <<"POD_enable_line", "PODEnableLine", "bool">>,
       <<"POD_ChargeComplete", "PODChargeComplete", "bool">>,
       <<"POD_DischargeComplete", "PODDischargeComplete", "bool">>,
       <<"POD_PersistentlyFaulted", "PODPersistentlyFaulted", "bool">>,
       <<"POD_PermanentlyFaulted", "PODPermanentlyFaulted", "bool">>,
       <<"POD_ChargeRequest", "PODChargeRequest", "bool">>,
       <<"POD_ActiveHeating", "PODActiveHeating", "bool">>,
       <<"POD_CCVhold", "PODCCVhold", "bool">> >>

TEPINVVitals ==
    << <<"PINV_EnergyDischarged", "PINVEnergyDischarged", "float">>,
       <<"PINV_EnergyCharged", "PINVEnergyCharged", "float">>,
       <<"PINV_VSplit1", "PINVVSplit1", "float">>,
       <<"PINV_VSplit2", "PINVVSplit2", "float">>,
       <<"PINV_PllFrequency", "PINVPllFrequency", "float">>,
       <<"PINV_PllLocked", "PINVPllLocked", "bool">>,
       <<"PINV_Pout", "PINVPout", "float">>,
       <<"PINV_Qout", "PINVQout", "float">>,
       <<"PINV_Vout", "PINVVout", "float">>,
       <<"PINV_Fout", "PINVFout", "float">>,
       <<"PINV_ReadyForGridForming", "PINVReadyForGridForming", "bool">>,
       <<"PINV_State", "PINVState", "string">>,
       <<"PINV_GridState", "PINVGridState", "string">>,
       <<"PINV_HardwareEnableLine", "PINVHardwareEnableLine", "bool">>,
       <<"PINV_PowerLimiter", "PINVPowerLimiter", "string">> >>

PVACVitals ==
    << <<"PVAC_Iout", "PVACIout", "float">>,
       <<"PVAC_VL1Ground", "PVACVL1Ground", "float">>,
       <<"PVAC_VL2Ground", "PVACVL2Ground", "float">>,
       <<"PVAC_VHvMinusChassisDC", "PVACVHvMinusChassisDC", "float">>,
       <<"PVAC_PVCurrent_A", "PVACPVCurrentA", "float">>,
       <<"PVAC_PVCurrent_B", "PVACPVCurrentB", "float">>,
       <<"PVAC_PVCurrent_C", "PVACPVCurrentC", "float">>,
       <<"PVAC_PVCurrent_D", "PVACPVCurrentD", "float">>,
       <<"PVAC_PVMeasuredVoltage_A", "PVACPVMeasuredVoltageA", "float">>,
       <<"PVAC_PVMeasuredVoltage_B", "PVACPVMeasuredVoltageB", "float">>,
       <<"PVAC_PVMeasuredVoltage_C", "PVACPVMeasuredVoltageC", "float">>,
       <<"PVAC_PVMeasuredVoltage_D", "PVACPVMeasuredVoltageD", "float">>,
       <<"PVAC_PVMeasuredPower_A", "PVACPVMeasuredPowerA", "float">>,
       <<"PVAC_PVMeasuredPower_B", "PVACPVMeasuredPowerB", "float">>,
       <<"PVAC_PVMeasuredPower_C", "PVACPVMeasuredPowerC", "float">>,
       <<"PVAC_PVMeasuredPower_D", "PVACPVMeasuredPowerD", "float">>,
       <<"PVAC_LifetimeEnergyPV_Total", "PVACLifetimeEnergyPVTotal", "float">>,
       <<"PVAC_Vout", "PVACVout", "float">>,
       <<"PVAC_Fout", "PVACFout", "float">>,
       <<"PVAC_Pout", "PVACPout", "float">>,
       <<"PVAC_Qout", "PVACQout", "float">>,
       <<"PVAC_State", "PVACState", "string">>,
       <<"PVAC_GridState", "PVACGridState", "string">>,
       <<"PVAC_InvState", "PVACInvState", "string">>,
       <<"PVAC_PvState_A", "PVACPvStateA", "string">>,
       <<"PVAC_PvState_B", "PVACPvStateB", "string">>,
       <<"PVAC_PvState_C", "PVACPvStateC", "string">>,
       <<"PVAC_PvState_D", "PVACPvStateD", "string">>,
       <<"PVI-PowerStatusSetpoint", "PVIPowerStatusSetpoint", "string">> >>

PVSVitals ==
    << <<"PVS_vLL", "PVSVLL", "float">>,
       <<"PVS_State", "PVSState", "string">>,
       <<"PVS_SelfTestState", "PVSSelfTestState", "string">>,
       <<"PVS_EnableOutput", "PVSEnableOutput", "bool">>,
       <<"PVS_StringA_Connected", "PVSStringAConnected", "bool">>,
       <<"PVS_StringB_Connected", "PVSStringBConnected", "bool">>,
       <<"PVS_StringC_Connected", "PVSStringCConnected", "bool">>,
       <<"PVS_StringD_Connected", "PVSStringDConnected", "bool">> >>

NEURIOVitals ==
    << <<"NEURIO_CT0_Location", "NEURIOCT0Location", "string">>,
       <<"NEURIO_CT0_InstRealPower", "NEURIOCT0InstRealPower", "float">> >>

(***************************************************************************)
(* Generated getters of the protobuf messages (nil-safe on a nil receiver).*)
(***************************************************************************)
\* (*StringValue).GetValue for the din: "" on a nil receiver.
GetDinValue(opt) == IF opt = <<>> THEN <<>> ELSE opt[1]

\* (*StringValue).GetValue: "" on a nil receiver.
GetValue(opt) == IF opt = <<>> THEN "" ELSE opt[1]

\* (*Timestamp).GetSeconds: 0 on a nil receiver.
GetSeconds(opt) == IF opt = <<>> THEN 0 ELSE opt[1]

\* (*Device).GetX: nil when the receiver is nil, else the field.
GetField(device, f) == IF device = <<>> THEN <<>> ELSE device[1][f]

\* (*DeviceAttributes).GetTeslaEnergyEcuAttributes and its siblings: the
\* message when the oneof holds that case, else nil.
GetOneof(da, case) ==
    IF da = <<>> THEN <<>>
    ELSE IF da[1].oneof = case THEN <<da[1]>> ELSE <<>>

GetTeslaEnergyEcuAttributes(da) == GetOneof(da, "teslaEnergyEcuAttributes")
GetMeterAttributes(da) == GetOneof(da, "meterAttributes")
GetPvInverterAttributes(da) == GetOneof(da, "pvInverterAttributes")

\* (*TeslaEnergyEcuAttributes).GetEcuType: 0 on a nil receiver.
GetEcuType(ecu) == IF ecu = <<>> THEN 0 ELSE ecu[1].ecuType

\* (*DeviceVital).GetFloatValue: the payload when the oneof holds a
\* floatValue, else 0.
GetFloatValue(vital) == IF vital.kind = "float" THEN vital.value ELSE 0

\* (*DeviceVital).GetStringValue: "" unless the oneof holds a stringValue.
GetStringValue(vital) == IF vital.kind = "string" THEN vital.value ELSE ""

\* (*DeviceVital).GetBoolValue: false unless the oneof holds a boolValue.
GetBoolValue(vital) == IF vital.kind = "bool" THEN vital.value ELSE FALSE

\* The accessor a case of the switch applies.
Accessor(kind, vital) ==
    CASE kind = "float" -> GetFloatValue(vital)
      [] kind = "string" -> GetStringValue(vital)
      [] kind = "bool" -> GetBoolValue(vital)

\* The Go zero value of a field of the kind.
ZeroOf(kind) ==
    CASE kind = "float" -> 0
      [] kind = "string" -> ""
      [] kind = "bool" -> FALSE

(***************************************************************************)
(* The typed records.                                                      *)
(***************************************************************************)
\* The zero DeviceCommon.
ZeroCommon ==
    [ Din |-> <<>>, PartNumber |-> "", SerialNumber |-> "", Manufacturer |-> "",
      ComponentParentDin |-> "", FirmwareVersion |-> "",
      LastCommunicationTime |-> 0, EcuType |-> 0, Alerts |-> <<>> ]

FieldsOf(table) == {table[k][2] : k \in 1..Len(table)}

KindOf(table, f) == table[CHOOSE k \in 1..Len(table) : table[k][2] = f][3]

\* "var x T" for a typed record whose vital fields are those of the table.
ZeroRecord(table) ==
    [f \in FieldsOf(table) \cup {"Common"} |->
        IF f = "Common" THEN ZeroCommon ELSE ZeroOf(KindOf(table, f))]

ZeroTESLAMeter == [Common |-> ZeroCommon, MeterLocation |-> <<>>]
ZeroTESLAPV == [Common |-> ZeroCommon, NameplateRealPowerW |-> 0]
ZeroNEURIO == ZeroRecord(NEURIOVitals) @@ [MeterLocation |-> <<>>]

\* The zero VitalDevices.
ZeroVitalDevices ==
    [ STSTSM |-> ZeroRecord(STSTSMVitals), TESYNC |-> ZeroRecord(TESYNCVitals),
      TEMSA |-> ZeroRecord(TEMSAVitals), TETHCs |-> <<>>, TEPODs |-> <<>>,
      TEPINVs |-> <<>>, PVACs |-> <<>>, PVSs |-> <<>>, TESLAMeters |-> <<>>,
      NEURIOs |-> <<>>, TESLAPVs |-> <<>> ]

Singletons == {"STSTSM", "TESYNC", "TEMSA"}
Collections ==
    {"TETHCs", "TEPODs", "TEPINVs", "PVACs", "PVSs", "TESLAMeters", "NEURIOs",
     "TESLAPVs"}

\* The table and the format of the default case of each branch with a switch.
TableOf(class) ==
    CASE class = "STSTSM" -> STSTSMVitals
      [] class = "TESYNC" -> TESYNCVitals
      [] class = "TEMSA" -> TEMSAVitals
      [] class = "TETHC" -> TETHCVitals
      [] class = "TEPOD" -> TEPODVitals
      [] class = "TEPINV" -> TEPINVVitals
      [] class = "PVAC" -> PVACVitals
      [] class = "PVS" -> PVSVitals
      [] class = "NEURIO" -> NEURIOVitals
      [] OTHER -> <<>>

UnknownFormat(class) ==
    CASE class = "STSTSM" -> "Unknown STSTSM DeviceVital.Name %s"
      [] class = "TESYNC" -> "Unknown TESYNC DeviceVital.Name %s"
      [] class = "TEMSA" -> "Unknown DeviceVital.Name %s"
      [] class = "TETHC" -> "Unknown TETHC DeviceVital.Name %s"
      [] class = "TEPOD" -> "Unknown TEPOD DeviceVital.Name %s"
      [] class = "TEPINV" -> "Unknown DeviceVital.Name %s"
      [] class = "PVAC" -> "Unknown DeviceVital.Name %s"
      [] class = "PVS" -> "Unknown TEPINV DeviceVital.Name %s"
      [] class = "TESLAMeter" -> "Unknown TESLA Meter DeviceVital.Name %s"
      [] class = "TESLAPV" -> "Unknown TESLA PV DeviceVital.Name %s"
      [] class = "NEURIO" -> "Unknown NEURIO DeviceVital.Name %s"

\* The slot or collection of the aggregate each branch writes.
TargetOf(class) ==
    CASE class = "STSTSM" -> "STSTSM"
      [] class = "TESYNC" -> "TESYNC"
      [] class = "TEMSA" -> "TEMSA"
      [] class = "TETHC" -> "TETHCs"
      [] class = "TEPOD" -> "TEPODs"
      [] class = "TEPINV" -> "TEPINVs"
      [] class = "PVAC" -> "PVACs"
      [] class = "PVS" -> "PVSs"
      [] class = "NEURIO" -> "NEURIOs"

(***************************************************************************)
(* The body of the for loop over the device entries.                       *)
(***************************************************************************)
\* The for loop over sccdwv.Vitals with its switch on *vital.Name.  st is
\* [rec, printed, panic]: the record under construction, the lines printed,
\* and whether *vital.Name dereferenced a nil Name.
\* The loop as it would be if the default case left the loop.
RECURSIVE VitalsLoopBreaks(_, _, _, _, _)
VitalsLoopBreaks(table, format, vitals, j, st) ==
    IF j > Len(vitals) THEN st
    ELSE LET vital == vitals[j] IN
         IF vital.Name = <<>> THEN [st EXCEPT !.panic = TRUE]
         ELSE LET name == vital.Name[1]
                  hits == {k \in 1..Len(table) : table[k][1] = name}
              IN IF hits = {}
                 THEN [st EXCEPT !.printed = Append(@, <<format, name>>)]
                 ELSE LET t == table[CHOOSE k \in hits : TRUE]
                      IN VitalsLoopBreaks(table, format, vitals, j + 1,
                             [st EXCEPT !.rec[t[2]] = Accessor(t[3], vital)])

RECURSIVE VitalsLoop(_, _, _, _, _)
VitalsLoop(table, format, vitals, j, st) ==
    IF j > Len(vitals) THEN st
    ELSE LET vital == vitals[j] IN
         IF vital.Name = <<>> THEN [st EXCEPT !.panic = TRUE]
         ELSE LET name == vital.Name[1]
                  hits == {k \in 1..Len(table) : table[k][1] = name}
              IN IF hits = {}
                 THEN VitalsLoop(table, format, vitals, j + 1,
                          [st EXCEPT !.printed = Append(@, <<format, name>>)])
                 ELSE LET t == table[CHOOSE k \in hits : TRUE]
                      IN VitalsLoop(table, format, vitals, j + 1,
                             [st EXCEPT !.rec[t[2]] = Accessor(t[3], vital)])

\* The metadata as they would be if the alerts were looked for on the device
\* itself, which carries none.
MakeCommonDeviceAlerts(sccdwv, device) ==
    [ Din |-> GetDinValue(GetField(device, "Din")),
      PartNumber |-> GetValue(GetField(device, "PartNumber")),
      SerialNumber |-> GetValue(GetField(device, "SerialNumber")),
      Manufacturer |-> GetValue(GetField(device, "Manufacturer")),
      ComponentParentDin |-> GetValue(GetField(device, "ComponentParentDin")),
      FirmwareVersion |-> GetValue(GetField(device, "FirmwareVersion")),
      LastCommunicationTime |->
          GetSeconds(GetField(device, "LastCommunicationTime")),
      EcuType |->
          GetEcuType(GetTeslaEnergyEcuAttributes(device[1].DeviceAttributes)),
      Alerts |-> <<>> ]

\* common := &DeviceCommon{} and its nine assignments.
MakeCommon(sccdwv, device) ==
    [ Din |-> GetDinValue(GetField(device, "Din")),
      PartNumber |-> GetValue(GetField(device, "PartNumber")),
      SerialNumber |-> GetValue(GetField(device, "SerialNumber")),
      Manufacturer |-> GetValue(GetField(device, "Manufacturer")),
      ComponentParentDin |-> GetValue(GetField(device, "ComponentParentDin")),
      FirmwareVersion |-> GetValue(GetField(device, "FirmwareVersion")),
      LastCommunicationTime |->
          GetSeconds(GetField(device, "LastCommunicationTime")),
      EcuType |->
          GetEcuType(GetTeslaEnergyEcuAttributes(device[1].DeviceAttributes)),
      Alerts |-> sccdwv.Alerts ]

\* The assignment as it would be if a filled slot were kept.
AssignSlotFirstWins(v, slot, rec) ==
    IF v[slot].Common.Din = <<>> THEN [v EXCEPT ![slot] = rec] ELSE v

\* vd.X = x for a singleton slot.
AssignSlot(v, slot, rec) == [v EXCEPT ![slot] = rec]

\* The append as it would be if it put the record first, or dropped the
\* records already there.
AppendToPrepends(v, coll, rec) == [v EXCEPT ![coll] = <<rec>> \o @]

AppendToReplaces(v, coll, rec) == [v EXCEPT ![coll] = <<rec>>]

\* vd.Xs = append(vd.Xs, x) for a collection.
AppendTo(v, coll, rec) == [v EXCEPT ![coll] = Append(@, rec)]

\* What one iteration leaves: the aggregate, the lines printed, whether the
\* iteration panicked, and where the entry went.
Step(v, printed, panic, outcome) ==
    [vd |-> v, printed |-> printed, panic |-> panic, outcome |-> outcome]

\* A branch with a switch: STSTSM, TESYNC, TEMSA (slots) and TETHC, TEPOD,
\* TEPINV, PVAC, PVS (collections).
DecodeTyped(class, sccdwv, common, v) ==
    LET st == VitalsLoop(TableOf(class), UnknownFormat(class), sccdwv.Vitals, 1,
                  [rec |-> ZeroRecord(TableOf(class)), printed |-> <<>>,
                   panic |-> FALSE])
        rec == [st.rec EXCEPT !.Common = common]
        target == TargetOf(class)
    IN IF st.panic THEN Step(v, st.printed, TRUE, "panic")
       ELSE IF target \in Singletons
            THEN Step(AssignSlot(v, target, rec), st.printed, FALSE, target)
            ELSE Step(AppendTo(v, target, rec), st.printed, FALSE, target)

\* The TESLA branch: meter attributes first, then PV inverter attributes.
DecodeTESLA(sccdwv, device, common, v) ==
    LET ma == GetMeterAttributes(device[1].DeviceAttributes)
        pvia == GetPvInverterAttributes(device[1].DeviceAttributes)
    IN IF ma # <<>>
       THEN LET st == VitalsLoop(<<>>, UnknownFormat("TESLAMeter"),
                          sccdwv.Vitals, 1,
                          [rec |-> [ZeroTESLAMeter EXCEPT
                                       !.MeterLocation = ma[1].meterLocation],
                           printed |-> <<>>, panic |-> FALSE])
            IN IF st.panic THEN Step(v, st.printed, TRUE, "panic")
               ELSE Step(AppendTo(v, "TESLAMeters",
                                  [st.rec EXCEPT !.Common = common]),
                         st.printed, FALSE, "TESLAMeters")
       ELSE IF pvia # <<>>
       THEN LET st == VitalsLoop(<<>>, UnknownFormat("TESLAPV"),
                          sccdwv.Vitals, 1,
                          [rec |-> [ZeroTESLAPV EXCEPT
                                       !.NameplateRealPowerW =
                                           pvia[1].nameplateRealPowerW],
                           printed |-> <<>>, panic |-> FALSE])
            IN IF st.panic THEN Step(v, st.printed, TRUE, "panic")
               ELSE Step(AppendTo(v, "TESLAPVs",
                                  [st.rec EXCEPT !.Common = common]),
                         st.printed, FALSE, "TESLAPVs")
       ELSE Step(v, << <<"Unknown TESLA device in vitals", "">> >>, FALSE,
                 "dropped")

\* The NEURIO branch: the switch, then the meter location when present.
DecodeNEURIO(sccdwv, device, common, v) ==
    LET st == VitalsLoop(NEURIOVitals, UnknownFormat("NEURIO"), sccdwv.Vitals,
                  1, [rec |-> ZeroNEURIO, printed |-> <<>>, panic |-> FALSE])
        ma == GetMeterAttributes(device[1].DeviceAttributes)
        rec == [st.rec EXCEPT !.Common = common,
                              !.MeterLocation =
                                  IF ma # <<>> THEN ma[1].meterLocation ELSE @]
    IN IF st.panic THEN Step(v, st.printed, TRUE, "panic")
       ELSE Step(AppendTo(v, "NEURIOs", rec), st.printed, FALSE, "NEURIOs")

\* One iteration of the for loop at powerwall.go:702 on the entry sccdwv.
\* sccdwv.Device.Device panics on a nil sccdwv.Device, and
\* device.DeviceAttributes panics on a nil device.
DecodeDevice(sccdwv, v) ==
    IF sccdwv.Device = <<>> THEN Step(v, <<>>, TRUE, "panic")
    ELSE LET device == sccdwv.Device[1].Device IN
         IF device = <<>> THEN Step(v, <<>>, TRUE, "panic")
         ELSE LET common == MakeCommon(sccdwv, device)
                  class == ClassOf(common.Din)
              IN CASE class = "TESLA" -> DecodeTESLA(sccdwv, device, common, v)
                   [] class = "NEURIO" -> DecodeNEURIO(sccdwv, device, common, v)
                   [] class = "unknown" -> Step(v, <<>>, FALSE, "dropped")
                   [] OTHER -> DecodeTyped(class, sccdwv, common, v)

(***************************************************************************)
(* Inputs: device entries as the gateway sends them.                       *)
(***************************************************************************)
Chars(class) == KnownPrefixes[CHOOSE k \in 1..Len(ClassNames) : ClassNames[k] = class]

Attrs(oneof, ecuType, nameplate, location) ==
    << [oneof |-> oneof, ecuType |-> ecuType, nameplateRealPowerW |-> nameplate,
        meterLocation |-> location] >>

\* A Device message with every optional field set.
FullDevice(d, serial, attrs) ==
    << [ Din |-> <<d>>, PartNumber |-> <<"1092170-03-E">>,
         SerialNumber |-> <<serial>>, Manufacturer |-> <<"TESLA">>,
         ComponentParentDin |-> <<"STSTSM--1">>, FirmwareVersion |-> <<"21.44">>,
         LastCommunicationTime |-> <<1600000000>>, DeviceAttributes |-> attrs ] >>

\* A Device message with only the din and the attributes.
BareDevice(d, attrs) ==
    << [ Din |-> d, PartNumber |-> <<>>, SerialNumber |-> <<>>,
         Manufacturer |-> <<>>, ComponentParentDin |-> <<>>,
         FirmwareVersion |-> <<>>, LastCommunicationTime |-> <<>>,
         DeviceAttributes |-> attrs ] >>

Vital(name, kind, value) == [Name |-> <<name>>, kind |-> kind, value |-> value]

\* A DeviceVital whose optional name is not set.
NamelessVital == [Name |-> <<>>, kind |-> "float", value |-> 7]

Entry(device, vitals, alerts) ==
    [Device |-> <<[Device |-> device]>>, Vitals |-> vitals, Alerts |-> alerts]

\* An entry whose SiteControllerConnectedDevice is not set.
EntryNoWrapper == [Device |-> <<>>, Vitals |-> <<>>, Alerts |-> <<>>]

\* An entry whose SiteControllerConnectedDevice carries no Device.
EntryNoDevice == Entry(<<>>, <<Vital("THC_State", "string", "Idle")>>, <<>>)

EcuAttrs == Attrs("teslaEnergyEcuAttributes", 207, 0, <<>>)

EntrySTSTSM1 ==
    Entry(FullDevice(Chars("STSTSM") \o <<"-", "1">>, "S1", EcuAttrs),
          <<Vital("STSTSM-Location", "string", "Main"),
            Vital("STSTSM-Bogus", "int", 4)>>,
          <<"SystemConnectedToGrid">>)

EntrySTSTSM2 ==
    Entry(BareDevice(<<Chars("STSTSM") \o <<"-", "2">>>>, <<>>), <<>>, <<>>)

EntryTESYNC ==
    Entry(FullDevice(Chars("TESYNC") \o <<"-", "1">>, "Y1", EcuAttrs),
          <<Vital("ISLAND_VL1N_Main", "float", 2401),
            Vital("ISLAND_GridConnected", "bool", TRUE),
            Vital("ISLAND_GridState", "string", "Grid_Compliant"),
            Vital("METER_X_VL1N", "float", 1200),
            Vital("METER_X_VL1N", "float", 1201),
            Vital("METER_Z_VL1G", "float", 5)>>,
          <<>>)

EntryTEMSA ==
    Entry(BareDevice(<<Chars("TEMSA") \o <<"-", "1">>>>, <<>>),
          <<Vital("METER_Z_VL1G", "float", 1210),
            Vital("ISLAND_L1MicrogridOk", "string", "yes"),
            Vital("SYNC_ExternallyPowered", "bool", TRUE)>>,
          <<"PANEL_a_010">>)

\* The thermal controller of the concrete scenario, with one bogus vital.
EntryTETHC1 ==
    Entry(FullDevice(Chars("TETHC") \o <<"-", "-", "1">>, "T1", EcuAttrs),
          <<Vital("THC_State", "string", "Operating"),
            Vital("THC_Bogus", "float", 99),
            Vital("THC_AmbientTemp", "float", 235)>>,
          <<>>)

\* A thermal controller whose temperature comes as an intValue and whose
\* state comes twice.
EntryTETHC2 ==
    Entry(BareDevice(<<Chars("TETHC") \o <<"-", "-", "2">>>>, <<>>),
          <<Vital("THC_State", "string", "Idle"),
            Vital("THC_AmbientTemp", "int", 23),
            Vital("THC_State", "string", "Fault")>>,
          <<"THC_w_155">>)

EntryTETHCNoName ==
    Entry(BareDevice(<<Chars("TETHC") \o <<"-", "-", "3">>>>, <<>>),
          <<Vital("THC_State", "string", "Idle"), NamelessVital>>, <<>>)

EntryTEPOD ==
    Entry(BareDevice(<<Chars("TEPOD") \o <<"-", "1">>>>, EcuAttrs),
          <<Vital("POD_nom_full_pack_energy", "float", 140000),
            Vital("POD_state", "string", "POD_ACTIVE"),
            Vital("POD_enable_line", "bool", TRUE)>>,
          <<>>)

EntryTEPINV ==
    Entry(BareDevice(<<Chars("TEPINV") \o <<"-", "1">>>>, <<>>),
          <<Vital("PINV_Pout", "float", 12), Vital("PINV_PllLocked", "bool", TRUE),
            Vital("PINV_State", "string", "PINV_GridFollowing")>>,
          <<>>)

EntryPVAC ==
    Entry(BareDevice(<<Chars("PVAC") \o <<"-", "1">>>>, <<>>),
          <<Vital("PVAC_Pout", "float", 3300),
            Vital("PVAC_State", "string", "PVAC_Active"),
            Vital("PVS_vLL", "float", 2400)>>,
          <<>>)

EntryPVS ==
    Entry(BareDevice(<<Chars("PVS") \o <<"-", "1">>>>, <<>>),
          <<Vital("PVS_vLL", "float", 2400),
            Vital("PVS_StringA_Connected", "bool", TRUE),
            Vital("PVAC_Pout", "float", 1)>>,
          <<>>)

EntryTESLAMeter ==
    Entry(FullDevice(Chars("TESLA") \o <<"-", "-", "1">>, "M1",
                     Attrs("meterAttributes", 0, 0, <<1, 4>>)),
          <<Vital("METER_Bogus", "float", 1)>>, <<>>)

EntryTESLAMeterNoName ==
    Entry(BareDevice(<<Chars("TESLA") \o <<"-", "-", "2">>>>,
                     Attrs("meterAttributes", 0, 0, <<2>>)),
          <<NamelessVital>>, <<>>)

\* The PV inverter of the concrete scenario: no vitals, nameplate 5000 W.
EntryTESLAPV ==
    Entry(BareDevice(<<Chars("TESLA") \o <<"-", "-", "1">>>>,
                     Attrs("pvInverterAttributes", 0, 5000, <<>>)),
          <<>>, <<>>)

\* A TESLA device whose attributes are neither of the two.
EntryTESLAOther ==
    Entry(BareDevice(<<Chars("TESLA") \o <<"-", "-", "3">>>>, EcuAttrs),
          <<Vital("METER_Bogus", "float", 1)>>, <<>>)

EntryNEURIO ==
    Entry(BareDevice(<<Chars("NEURIO") \o <<"-", "1">>>>,
                     Attrs("meterAttributes", 0, 0, <<3>>)),
          <<Vital("NEURIO_CT0_Location", "string", "solar"),
            Vital("NEURIO_CT0_InstRealPower", "float", 15)>>,
          <<>>)

\* The unknown device of the concrete scenario.
EntryBOGUS ==
    Entry(BareDevice(<<<<"B", "O", "G", "U", "S", "-", "-", "1">>>>, <<>>),
          <<Vital("THC_State", "string", "Idle"), NamelessVital>>,
          <<"BOGUS_alert">>)

\* A device that carries no din and no attributes.
EntryNoDin == Entry(BareDevice(<<>>, <<>>), <<>>, <<>>)

\* The entries the model draws from, by label.
Sample ==
    [ STSTSM1 |-> EntrySTSTSM1, STSTSM2 |-> EntrySTSTSM2, TESYNC |-> EntryTESYNC,
      TEMSA |-> EntryTEMSA, TETHC1 |-> EntryTETHC1, TETHC2 |-> EntryTETHC2,
      TETHCNoName |-> EntryTETHCNoName, TEPOD |-> EntryTEPOD,
      TEPINV |-> EntryTEPINV, PVAC |-> EntryPVAC, PVS |-> EntryPVS,
      TESLAMeter |-> EntryTESLAMeter,
      TESLAMeterNoName |-> EntryTESLAMeterNoName, TESLAPV |-> EntryTESLAPV,
      TESLAOther |-> EntryTESLAOther, NEURIO |-> EntryNEURIO,
      BOGUS |-> EntryBOGUS, NoDin |-> EntryNoDin, NoWrapper |-> EntryNoWrapper,
      NoDevice |-> EntryNoDevice ]

SampleEntries == DOMAIN Sample

RepeatEntries == {"STSTSM1", "TETHC1"}

SeqsUpTo(S, n) == UNION {[1..k -> S] : k \in 0..n}

\* What one fetch can bring: an HTTP failure, or a body that unmarshals into
\* the entries (named by their labels), or a body whose unmarshalling fails
\* after the entries.
HttpFailure == [httpOk |-> FALSE, wellFormed |-> FALSE, entries |-> <<>>]

Bodies(S, n) ==
    {HttpFailure} \cup
    {[httpOk |-> TRUE, wellFormed |-> w, entries |-> es] :
        w \in BOOLEAN, es \in SeqsUpTo(S, n)}

\* Longer payloads: a whole system with every class once, same-class entries
\* with other classes in between, and repeated singleton entries.
Scenarios ==
    { <<"STSTSM1", "TESYNC", "TEMSA", "TETHC1", "TEPOD", "TEPINV", "PVAC", "PVS",
        "TESLAMeter", "TESLAPV", "NEURIO">>,
      <<"TETHC1", "TEPOD", "TETHC2", "BOGUS", "TETHC1">>,
      <<"STSTSM1", "STSTSM2", "BOGUS", "TETHC1">>,
      <<"TEMSA", "STSTSM2", "TESLAOther", "STSTSM1", "TEMSA">>,
      <<"TESLAPV", "TESLAMeter", "NEURIO", "TESLAPV", "TESLAMeter">> }

ScenarioBodies ==
    {[httpOk |-> TRUE, wellFormed |-> w, entries |-> es] :
        w \in BOOLEAN, es \in Scenarios}

(***************************************************************************)
(* GetVitals.                                                              *)
(***************************************************************************)
\* err of GetPowerwall: non-nil when the request failed.
GetPowerwallErr(b) == IF b.httpOk THEN <<>> ELSE <<"http">>

\* The error as it would be if the result of proto.Unmarshal were dropped.
UnmarshalErrIgnored(b) == <<>>

\* err of proto.Unmarshal(body, devices): non-nil when the body does not
\* parse; devices then holds what was parsed before the error.
UnmarshalErr(b) == IF b.wellFormed THEN <<>> ELSE <<"proto">>

\* What proto.Unmarshal leaves in devices.Devices.
Unmarshal(b) == [k \in 1..Len(b.entries) |-> Sample[b.entries[k]]]

\* The declaration as it would be if vd were a package-level variable.
DeclareVdStale(old) == old

\* var vd VitalDevices: a fresh zero value, whatever stood there before.
DeclareVd(old) == ZeroVitalDevices

\* GetVitals from its entry down to the for loop (powerwall.go:682-701).
CallFrom(bodies) ==
    /\ pc = "idle"
    /\ \E b \in bodies :
        /\ body' = b
        /\ stdout' = <<>>
        /\ outcomes' = <<>>
        /\ i' = 0
        /\ IF GetPowerwallErr(b) # <<>>
           THEN /\ out' = <<>>
                /\ err' = GetPowerwallErr(b)
                /\ pc' = "returned"
                /\ UNCHANGED <<devices, numd, vd>>
           ELSE IF UnmarshalErr(b) # <<>>
           THEN /\ devices' = Unmarshal(b)
                /\ out' = <<>>
                /\ err' = UnmarshalErr(b)
                /\ pc' = "returned"
                /\ UNCHANGED <<numd, vd>>
           ELSE /\ devices' = Unmarshal(b)
                /\ numd' = Len(b.entries)
                /\ vd' = DeclareVd(vd)
                /\ out' = <<>>
                /\ err' = <<>>
                /\ pc' = "loop"
    /\ UNCHANGED <<calls, first, din, cls>>
    /\ UNCHANGED <<cacheVars, commandVars>>

Call == CallFrom(Bodies(SampleEntries, MaxDevices) \cup ScenarioBodies)

CallRepeat == CallFrom(Bodies(RepeatEntries, MaxRepeatDevices))

\* One iteration of the for loop (powerwall.go:702-1184).
DecodeEntry ==
    /\ pc = "loop"
    /\ i < numd
    /\ LET r == DecodeDevice(devices[i + 1], vd) IN
        /\ vd' = r.vd
        /\ stdout' = stdout \o r.printed
        /\ pc' = IF r.panic THEN "panic" ELSE "loop"
        /\ i' = IF r.panic THEN i ELSE i + 1
        /\ outcomes' = Append(outcomes, r.outcome)
    /\ UNCHANGED <<body, devices, numd, out, err, calls, first, din, cls>>
    /\ UNCHANGED <<cacheVars, commandVars>>

\* return &vd, nil (powerwall.go:1191).
Return ==
    /\ pc = "loop"
    /\ i >= numd
    /\ out' = <<vd>>
    /\ err' = <<>>
    /\ pc' = "returned"
    /\ UNCHANGED <<body, devices, numd, i, vd, stdout, outcomes, calls, first,
                   din, cls>>
    /\ UNCHANGED <<cacheVars, commandVars>>

\* The caller polls again.  The history may remember the call that just
\* returned, and notes a later call with another body.
CallAgain ==
    /\ pc = "returned"
    /\ calls < MaxCalls
    /\ pc' = "idle"
    /\ calls' = calls + 1
    /\ \E keep \in BOOLEAN :
        first' = IF first = <<>>
                 THEN IF keep
                      THEN <<[body |-> body, out |-> out, err |-> err,
                              mixed |-> FALSE]>>
                      ELSE <<>>
                 ELSE IF first[1].body # body
                      THEN <<[first[1] EXCEPT !.mixed = TRUE]>>
                      ELSE first
    /\ UNCHANGED <<body, devices, numd, i, vd, out, err, stdout, outcomes, din,
                   cls>>
    /\ UNCHANGED <<cacheVars, commandVars>>

Idle ==
    /\ body = HttpFailure
    /\ pc = "idle"
    /\ devices = <<>>
    /\ numd = 0
    /\ i = 0
    /\ vd = ZeroVitalDevices
    /\ out = <<>>
    /\ err = <<>>
    /\ stdout = <<>>
    /\ outcomes = <<>>
    /\ calls = 0
    /\ first = <<>>

Init == Idle /\ din = <<>> /\ cls = "" /\ CacheAtRest /\ CommandsAtRest

Next == Call \/ DecodeEntry \/ Return

Spec == Init /\ [][Next]_vars

NextRepeat == CallRepeat \/ DecodeEntry \/ Return \/ CallAgain

SpecRepeat == Init /\ [][NextRepeat]_vars

(***************************************************************************)
(* The classification chain on its own, over dins built around the known   *)
(* prefixes: every truncation of a prefix, followed by up to MaxSuffix     *)
(* characters of the alphabet of the prefixes.                             *)
(***************************************************************************)
Alphabet ==
    UNION {{KnownPrefixes[k][m] : m \in 1..Len(KnownPrefixes[k])} :
              k \in 1..Len(KnownPrefixes)} \cup {"-", "1"}

DinInputs ==
    UNION {{SubSeq(KnownPrefixes[k], 1, m) \o s :
               m \in 0..Len(KnownPrefixes[k]), s \in SeqsUpTo(Alphabet, MaxSuffix)} :
              k \in 1..Len(KnownPrefixes)}

Classify ==
    /\ cls = ""
    /\ cls' = ClassOf(din)
    /\ UNCHANGED <<body, pc, devices, numd, i, vd, out, err, stdout, outcomes,
                   calls, first, din>>
    /\ UNCHANGED <<cacheVars, commandVars>>

InitDin == Idle /\ din \in DinInputs /\ cls = "" /\ CacheAtRest /\ CommandsAtRest

NextDin == Classify

SpecDin == InitDin /\ [][NextDin]_vars

(***************************************************************************)
(* What the claims speak of.                                               *)
(***************************************************************************)
\* The number of singleton slots that hold a record: a record built from an
\* entry carries that entry's din, which is never empty.
HeldSlots(v) == Cardinality({s \in Singletons : v[s].Common.Din # <<>>})

RECURSIVE SumLens(_, _)
SumLens(v, S) ==
    IF S = {} THEN 0
    ELSE LET c == CHOOSE x \in S : TRUE IN Len(v[c]) + SumLens(v, S \ {c})

\* The processed entries routed to an outcome, by position.
RoutedTo(o) == {k \in 1..Len(outcomes) : outcomes[k] = o}

Dropped == Cardinality(RoutedTo("dropped"))

\* Entries of a singleton class that a later entry of the class replaced.
Overwritten ==
    Cardinality({k \in 1..Len(outcomes) :
                    /\ outcomes[k] \in Singletons
                    /\ \E m \in (k + 1)..Len(outcomes) : outcomes[m] = outcomes[k]})

\* The call is past a successful unmarshal: in the loop, or returned from it.
Decoding == pc \in {"loop", "panic"} \/ (pc = "returned" /\ out # <<>>)

MaxOf(S) == CHOOSE k \in S : \A m \in S : m <= k

\* The metadata of an entry that carries a device, read off the message.
ExpectedCommon(e) ==
    LET d == e.Device[1].Device[1]
        text(opt) == IF opt = <<>> THEN "" ELSE opt[1]
    IN [ Din |-> IF d.Din = <<>> THEN <<>> ELSE d.Din[1],
         PartNumber |-> text(d.PartNumber),
         SerialNumber |-> text(d.SerialNumber),
         Manufacturer |-> text(d.Manufacturer),
         ComponentParentDin |-> text(d.ComponentParentDin),
         FirmwareVersion |-> text(d.FirmwareVersion),
         LastCommunicationTime |->
             IF d.LastCommunicationTime = <<>> THEN 0
             ELSE d.LastCommunicationTime[1],
         EcuType |->
             IF d.DeviceAttributes # <<>>
                /\ d.DeviceAttributes[1].oneof = "teslaEnergyEcuAttributes"
             THEN d.DeviceAttributes[1].ecuType ELSE 0,
         Alerts |-> e.Alerts ]

\* The vitals of the list that carry the name, by position.
Named(vitals, name) == {j \in 1..Len(vitals) : vitals[j].Name = <<name>>}

\* The value a field ends with: the payload of the last vital of its name
\* when that payload is of the field's type, else the zero value.
ExpectedField(t, vitals) ==
    IF Named(vitals, t[1]) = {} THEN ZeroOf(t[3])
    ELSE LET v == vitals[MaxOf(Named(vitals, t[1]))]
         IN IF v.kind = t[3] THEN v.value ELSE ZeroOf(t[3])

\* The table behind a slot or collection of the aggregate.
TableOfTarget(o) ==
    CASE o = "STSTSM" -> STSTSMVitals
      [] o = "TESYNC" -> TESYNCVitals
      [] o = "TEMSA" -> TEMSAVitals
      [] o = "TETHCs" -> TETHCVitals
      [] o = "TEPODs" -> TEPODVitals
      [] o = "TEPINVs" -> TEPINVVitals
      [] o = "PVACs" -> PVACVitals
      [] o = "PVSs" -> PVSVitals
      [] o = "NEURIOs" -> NEURIOVitals
      [] OTHER -> <<>>

\* The record an entry gives in the slot or collection o, read off the message.
ExpectedRecord(o, e) ==
    LET table == TableOfTarget(o)
        attrs == e.Device[1].Device[1].DeviceAttributes
        fields == [f \in FieldsOf(table) |->
                      ExpectedField(
                          table[CHOOSE k \in 1..Len(table) : table[k][2] = f],
                          e.Vitals)]
        location == IF attrs # <<>> /\ attrs[1].oneof = "meterAttributes"
                    THEN attrs[1].meterLocation ELSE <<>>
    IN CASE o = "TESLAMeters" ->
               [Common |-> ExpectedCommon(e), MeterLocation |-> location]
         [] o = "TESLAPVs" ->
               [Common |-> ExpectedCommon(e),
                NameplateRealPowerW |-> attrs[1].nameplateRealPowerW]
         [] o = "NEURIOs" ->
               fields @@ [Common |-> ExpectedCommon(e), MeterLocation |-> location]
         [] OTHER -> fields @@ [Common |-> ExpectedCommon(e)]

\* The record the last completed iteration built.
LastRecord ==
    IF outcomes[i] \in Singletons THEN vd[outcomes[i]]
    ELSE vd[outcomes[i]][Len(vd[outcomes[i]])]

\* Every vital of the entry carries a name.
AllNamed(e) == \A j \in 1..Len(e.Vitals) : e.Vitals[j].Name # <<>>

\* sccdwv.GetDevice().GetDevice().GetDin().GetValue(): the din of an entry,
\* empty when the entry carries no device or the device no din.
EntryDin(e) ==
    IF e.Device = <<>> THEN <<>>
    ELSE IF e.Device[1].Device = <<>> THEN <<>>
    ELSE IF e.Device[1].Device[1].Din = <<>> THEN <<>>
    ELSE e.Device[1].Device[1].Din[1]

StartsWithKnownPrefix(d) ==
    \E k \in 1..Len(KnownPrefixes) :
        /\ Len(d) >= Len(KnownPrefixes[k])
        /\ SubSeq(d, 1, Len(KnownPrefixes[k])) = KnownPrefixes[k]

(***************************************************************************)
(* C1, as stated: once GetVitals has returned an aggregate for a payload   *)
(* of N entries, (slots holding a record) + (sum of the collection         *)
(* lengths) + (dropped entries) = N.                                       *)
(***************************************************************************)
C1_CountAsStated ==
    (pc = "returned" /\ out # <<>>) =>
        HeldSlots(out[1]) + SumLens(out[1], Collections) + Dropped = numd

\* C1, amended: every processed entry is routed to exactly one outcome, and
\* after any number i of completed iterations (slots holding a record) +
\* (entries of a singleton class replaced by a later entry of the class) +
\* (sum of the collection lengths) + (dropped entries) = i; at the return
\* i = N and the aggregate returned is the one so built.
C1_CountWithOverwrites ==
    Decoding =>
        /\ HeldSlots(vd) + Overwritten + SumLens(vd, Collections) + Dropped = i
        /\ \A k \in 1..i : outcomes[k] \in Singletons \cup Collections \cup {"dropped"}
        /\ (pc = "returned" => i = numd /\ out[1] = vd)

\* C1 witness: a returned aggregate of a payload with a replaced singleton
\* entry, a dropped entry and a collection entry.
C1_Witness ==
    /\ pc = "returned" /\ out # <<>>
    /\ numd >= 4
    /\ Overwritten >= 1
    /\ Dropped >= 1
    /\ SumLens(vd, Collections) >= 1

(***************************************************************************)
(* C2, as stated: on a body that unmarshals GetVitals never aborts; it     *)
(* returns an aggregate and a nil error.                                   *)
(***************************************************************************)
C2_NeverAborts ==
    /\ pc # "panic"
    /\ (pc = "returned" /\ body.httpOk /\ body.wellFormed) =>
           (err = <<>> /\ out # <<>>)

(***************************************************************************)
(* C3: when the body does not unmarshal, GetVitals returns a non-nil error *)
(* and a nil aggregate, and the loop over the devices is never entered.    *)
(***************************************************************************)
C3_MalformedNoAggregate ==
    (body.httpOk /\ ~body.wellFormed) =>
        /\ pc \in {"idle", "returned"}
        /\ (pc = "returned" => out = <<>> /\ err # <<>>)

\* C3 witness: a malformed body that had unmarshalled entries before the
\* error, returned with the error.
C3_Witness ==
    /\ pc = "returned"
    /\ body.httpOk /\ ~body.wellFormed
    /\ Len(devices) >= 2
    /\ out = <<>> /\ err # <<>>

(***************************************************************************)
(* C4, as stated: an iteration on an entry whose din starts with none of   *)
(* the ten prefixes leaves every slot and collection unchanged, prints a   *)
(* warning, and goes on to the next entry.                                 *)
(***************************************************************************)
C4_UnknownDeviceLogged ==
    [][(pc = "loop" /\ i < numd
        /\ ~StartsWithKnownPrefix(EntryDin(devices[i + 1])))
       => (vd' = vd /\ Len(stdout') > Len(stdout) /\ pc' = "loop" /\ i' = i + 1)]_vars

(***************************************************************************)
(* C5, as stated: for a device of a class with a switch whose vitals all   *)
(* carry names, every field whose name occurs in the list holds the        *)
(* payload of a vital of that name, and every other field keeps its zero   *)
(* value.                                                                  *)
(***************************************************************************)
C5_FieldsHoldPayloads ==
    (pc \in {"loop", "returned"} /\ i >= 1 /\ TableOfTarget(outcomes[i]) # <<>>
     /\ AllNamed(devices[i])) =>
        LET table == TableOfTarget(outcomes[i]) IN
        \A k \in 1..Len(table) :
            IF Named(devices[i].Vitals, table[k][1]) = {}
            THEN LastRecord[table[k][2]] = ZeroOf(table[k][3])
            ELSE \E j \in Named(devices[i].Vitals, table[k][1]) :
                    /\ devices[i].Vitals[j].kind = table[k][3]
                    /\ LastRecord[table[k][2]] = devices[i].Vitals[j].value

\* C5, amended: for a device of a class with a switch whose vitals all carry
\* names, the iteration does not abort; every field whose name occurs holds
\* the payload of the last vital of that name when that payload is of the
\* field's type (float, string or bool) and its zero value otherwise; every
\* field whose name does not occur keeps its zero value; unrecognized names
\* change no field.
C5_FieldsHoldTypedLastPayload ==
    /\ (pc \in {"loop", "returned"} /\ i >= 1
        /\ TableOfTarget(outcomes[i]) # <<>> /\ AllNamed(devices[i])) =>
            \A k \in 1..Len(TableOfTarget(outcomes[i])) :
                LastRecord[TableOfTarget(outcomes[i])[k][2]] =
                    ExpectedField(TableOfTarget(outcomes[i])[k], devices[i].Vitals)
    /\ (pc = "panic" /\ StartsWithKnownPrefix(EntryDin(devices[i + 1]))) =>
            ~AllNamed(devices[i + 1])

\* C5 witness: the thermal controller of the scenario, with a bogus vital
\* between its two recognized ones, is the sole entry of TETHCs and carries
\* both values.
C5_Witness ==
    /\ pc = "returned" /\ err = <<>> /\ out # <<>>
    /\ body.entries = <<"TETHC1">>
    /\ Len(out[1].TETHCs) = 1
    /\ out[1].TETHCs[1].THCState = "Operating"
    /\ out[1].TETHCs[1].THCAmbientTemp = 235
    /\ Len(stdout) = 1

(***************************************************************************)
(* C6: each collection holds, in input order, exactly the records of the   *)
(* processed entries routed to it: the r-th record of a collection is the  *)
(* record of the r-th entry of that class, whatever entries lie between.   *)
(***************************************************************************)
C6_CollectionsKeepInputOrder ==
    Decoding =>
        \A c \in Collections :
            /\ Len(vd[c]) = Cardinality(RoutedTo(c) \cap 1..i)
            /\ \A k \in RoutedTo(c) \cap 1..i :
                   vd[c][Cardinality({m \in RoutedTo(c) : m <= k})] =
                       ExpectedRecord(c, devices[k])

\* C6 witness: two different thermal controllers with an entry of another
\* class between them, returned in input order.
C6_Witness ==
    /\ pc = "returned" /\ out # <<>>
    /\ \E a, b \in 1..numd :
          /\ a + 1 < b
          /\ outcomes[a] = "TETHCs" /\ outcomes[b] = "TETHCs"
          /\ outcomes[a + 1] \notin {"TETHCs", "dropped"}
          /\ EntryDin(devices[a]) # EntryDin(devices[b])
          /\ out[1].TETHCs[1].Common.Din = EntryDin(devices[a])
          /\ out[1].TETHCs[2].Common.Din = EntryDin(devices[b])

(***************************************************************************)
(* C7: a singleton slot equals the record of the last processed entry of   *)
(* its class alone, and the zero record when there was none; several       *)
(* entries of the class raise no error.                                    *)
(***************************************************************************)
C7_SingletonLastWins ==
    Decoding =>
        /\ \A s \in Singletons :
               IF RoutedTo(s) = {} THEN vd[s] = ZeroRecord(TableOfTarget(s))
               ELSE vd[s] = ExpectedRecord(s, devices[MaxOf(RoutedTo(s))])
        /\ (pc = "returned" => err = <<>> /\ out[1] = vd)

\* C7 witness: an STSTSM entry with a location, part number and alerts,
\* then one with none of them: the returned slot carries none of them.
C7_Witness ==
    /\ pc = "returned" /\ out # <<>> /\ err = <<>>
    /\ \E a, b \in RoutedTo("STSTSM") :
          /\ a < b
          /\ b = MaxOf(RoutedTo("STSTSM"))
          /\ ExpectedRecord("STSTSM", devices[a]).STSTSMLocation = "Main"
          /\ ExpectedCommon(devices[a]).Alerts # <<>>
          /\ out[1].STSTSM.STSTSMLocation = ""
          /\ out[1].STSTSM.Common.Alerts = <<>>
          /\ out[1].STSTSM.Common.PartNumber = ""
          /\ out[1].STSTSM.Common.Din = EntryDin(devices[b])

(***************************************************************************)
(* C8, as stated: an iteration on an entry whose din starts with TESLA     *)
(* appends exactly one record to TESLAMeters (MeterLocation copied) and    *)
(* none to TESLAPVs when meter attributes are present; otherwise exactly   *)
(* one to TESLAPVs (NameplateRealPowerW copied) and none to TESLAMeters    *)
(* when PV inverter attributes are present; otherwise appends nothing and  *)
(* prints a message.                                                       *)
(***************************************************************************)
C8_TeslaRouting ==
    [][(pc = "loop" /\ i < numd
        /\ Len(EntryDin(devices[i + 1])) >= 5
        /\ SubSeq(EntryDin(devices[i + 1]), 1, 5) = <<"T", "E", "S", "L", "A">>)
       => LET attrs == devices[i + 1].Device[1].Device[1].DeviceAttributes
              case == IF attrs = <<>> THEN "none" ELSE attrs[1].oneof
          IN IF case = "meterAttributes"
             THEN /\ Len(vd'.TESLAMeters) = Len(vd.TESLAMeters) + 1
                  /\ SubSeq(vd'.TESLAMeters, 1, Len(vd.TESLAMeters)) = vd.TESLAMeters
                  /\ vd'.TESLAMeters[Len(vd'.TESLAMeters)].MeterLocation =
                         attrs[1].meterLocation
                  /\ vd'.TESLAPVs = vd.TESLAPVs
             ELSE IF case = "pvInverterAttributes"
             THEN /\ Len(vd'.TESLAPVs) = Len(vd.TESLAPVs) + 1
                  /\ SubSeq(vd'.TESLAPVs, 1, Len(vd.TESLAPVs)) = vd.TESLAPVs
                  /\ vd'.TESLAPVs[Len(vd'.TESLAPVs)].NameplateRealPowerW =
                         attrs[1].nameplateRealPowerW
                  /\ vd'.TESLAMeters = vd.TESLAMeters
             ELSE /\ vd' = vd
                  /\ Len(stdout') > Len(stdout)]_vars

(***************************************************************************)
(* C9: a call that receives the body of a remembered earlier call returns  *)
(* what that call returned, whatever was decoded in between.               *)
(***************************************************************************)
C9_SameBodySameResult ==
    (pc = "returned" /\ first # <<>> /\ first[1].body = body) =>
        (out = first[1].out /\ err = first[1].err)

\* C9 witness: the remembered body decoded again after a call with another
\* body, both times to the same aggregate with a slot and a collection
\* filled.
C9_Witness ==
    /\ pc = "returned" /\ first # <<>>
    /\ first[1].body = body
    /\ first[1].mixed
    /\ out # <<>> /\ out = first[1].out
    /\ Len(out[1].TETHCs) >= 1
    /\ out[1].STSTSM.Common.Din # <<>>

(***************************************************************************)
(* C10: no known prefix is a prefix of another, so at most one prefix test *)
(* succeeds on a din, and the class the chain chooses is that of every     *)
(* test that succeeds: the same under every ordering of the tests.         *)
(***************************************************************************)
C10_PrefixesExclusive ==
    cls # "" =>
        LET hits == {k \in 1..Len(KnownPrefixes) :
                        /\ Len(din) >= Len(KnownPrefixes[k])
                        /\ SubSeq(din, 1, Len(KnownPrefixes[k])) = KnownPrefixes[k]}
        IN /\ Cardinality(hits) <= 1
           /\ \A k \in hits : cls = ClassNames[k]
           /\ (hits = {} => cls = "unknown")
           /\ \A a, b \in 1..Len(KnownPrefixes) :
                  (a # b /\ Len(KnownPrefixes[a]) <= Len(KnownPrefixes[b])) =>
                      SubSeq(KnownPrefixes[b], 1, Len(KnownPrefixes[a])) #
                          KnownPrefixes[a]

\* C10 witness: a din that continues past the prefix PVS, classified, with
\* the other prefix that shares its first two characters not matching.
C10_Witness ==
    /\ cls = "PVS"
    /\ Len(din) > 3
    /\ SubSeq(din, 1, 2) = SubSeq(KnownPrefixes[7], 1, 2)

(***************************************************************************)
(* The token cache (gotesla.go:48-53, 76-84, 154-238).                     *)
(*                                                                         *)
(* The directory of the cache is disk: dir gives, for each path name, the  *)
(* number of the file it names (0: no such name), files the content of     *)
(* each file ever created.  A file lives on under its number after its     *)
(* name is gone or given to another file, as it does for a process that    *)
(* still holds it open.  The content of a file is a JSON document as the   *)
(* sequence of its pieces: one triple <<key, string, number>> per member,  *)
(* then the closing brace; a write lays down ChunkLen pieces at a time.    *)
(***************************************************************************)
MaxOps == 3

MaxRaceOps == 1

ChunkLen == 3

Procs == 1..3

Min(a, b) == IF a <= b THEN a ELSE b

\* var TokenCachePath: a path name is the sequence of its parts.
TokenCachePath == <<"$HOME/.gotesla.cache">>

\* The suffix as it would be if the token were written in place.
NoSuffix == <<>>

\* var TokenCachePathNewSuffix = ".new"
TokenCachePathNewSuffix == <<".new">>

\* TokenCachePath+TokenCachePathNewSuffix (gotesla.go:168, 174).
NewPath == TokenCachePath \o TokenCachePathNewSuffix

Paths == {TokenCachePath, NewPath}

\* type Token struct
Token(a, ty, e, r, c) ==
    [AccessToken |-> a, TokenType |-> ty, ExpiresIn |-> e, RefreshToken |-> r,
     CreatedAt |-> c]

\* var t Token
ZeroToken == Token("", "", 0, "", 0)

CloseBrace == <<"}", "", 0>>

\* A byte no writer wrote: the gap a write beyond the end of a file leaves.
Hole == <<"NUL", "", 0>>

\* json.Marshal(t): the members in the order of the struct, under the names
\* of the field tags.
JsonMarshal(t) ==
    << <<"access_token", t.AccessToken, 0>>,
       <<"token_type", t.TokenType, 0>>,
       <<"expires_in", "", t.ExpiresIn>>,
       <<"refresh_token", t.RefreshToken, 0>>,
       <<"created_at", "", t.CreatedAt>>,
       CloseBrace >>

\* The document is a complete JSON object: members, then the closing brace.
ValidJSON(doc) ==
    /\ Len(doc) >= 1
    /\ doc[Len(doc)] = CloseBrace
    /\ \A k \in 1..(Len(doc) - 1) : doc[k][1] \notin {"}", "NUL", "#"}

\* The member json.Unmarshal takes for a key: the last one of that name, and
\* the zero value when there is none.
MemberOf(doc, key) ==
    LET S == {k \in 1..(Len(doc) - 1) : doc[k][1] = key} IN
    IF S = {} THEN <<key, "", 0>>
    ELSE doc[CHOOSE m \in S : \A n \in S : n <= m]

\* The parse as it would be with the refresh_token tag misspelt.
JsonUnmarshalDropsRefresh(doc) ==
    IF ~ValidJSON(doc) THEN [t |-> <<>>, err |-> <<"json">>]
    ELSE [t |-> <<Token(MemberOf(doc, "access_token")[2],
                        MemberOf(doc, "token_type")[2],
                        MemberOf(doc, "expires_in")[3],
                        MemberOf(doc, "refreshtoken")[2],
                        MemberOf(doc, "created_at")[3])>>,
          err |-> <<>>]

\* err = json.Unmarshal(body, &t) and the token it fills (gotesla.go:226).
JsonUnmarshal(doc) ==
    IF ~ValidJSON(doc) THEN [t |-> <<>>, err |-> <<"json">>]
    ELSE [t |-> <<Token(MemberOf(doc, "access_token")[2],
                        MemberOf(doc, "token_type")[2],
                        MemberOf(doc, "expires_in")[3],
                        MemberOf(doc, "refresh_token")[2],
                        MemberOf(doc, "created_at")[3])>>,
          err |-> <<>>]

\* os.OpenFile(path, O_WRONLY|O_CREATE|O_TRUNC), the first step of
\* ioutil.WriteFile: an existing file is emptied, else a new one is made.
OpenTrunc(d, path) ==
    IF d.dir[path] # 0
    THEN [d EXCEPT !.files[d.dir[path]] = <<>>]
    ELSE [dir |-> [d.dir EXCEPT ![path] = Len(d.files) + 1],
          files |-> Append(d.files, <<>>)]

\* write(2) of data at offset off of a file.
WriteAt(doc, off, data) ==
    [k \in 1..(IF Len(doc) > off + Len(data) THEN Len(doc) ELSE off + Len(data)) |->
        IF k > off /\ k <= off + Len(data) THEN data[k - off]
        ELSE IF k <= Len(doc) THEN doc[k]
        ELSE Hole]

\* os.Rename(src, dst): dst names the file src named, src names nothing.
Rename(d, src, dst) ==
    IF src = dst THEN d
    ELSE [d EXCEPT !.dir = [d.dir EXCEPT ![dst] = d.dir[src], ![src] = 0]]

\* os.Remove(path)
Remove(d, path) == [d EXCEPT !.dir[path] = 0]

\* f.Write as it would be if a short write were taken for the whole.
WriteDoneAfterFirstChunk(off, data) == off >= 1

\* f.Write returns once all of data is written.
WriteDone(off, data) == off = Len(data)

NoReturn == [op |-> "", err |-> <<>>, t |-> <<>>]

\* A process about to make up to n calls of the token cache.
ProcIdle(n) ==
    [pc |-> "idle", t |-> ZeroToken, fd |-> 0, off |-> 0, left |-> n,
     busy |-> FALSE, body |-> <<>>, ret |-> NoReturn]

\* Some process other than p is inside SaveCachedToken.
SaverBeside(p) == \E q \in Procs \ {p} : proc[q].pc \in {"write", "rename"}

\* SaveCachedToken(t) down to the opening of the temporary file
\* (gotesla.go:160-168).
SaveOpen(p, t) ==
    /\ proc[p].pc = "idle"
    /\ proc[p].left > 0
    /\ disk' = OpenTrunc(disk, NewPath)
    /\ proc' = [proc EXCEPT ![p] =
                   [@ EXCEPT !.pc = "write", !.t = t, !.off = 0,
                             !.fd = disk'.dir[NewPath], !.left = @ - 1]]
    /\ hist' = [hist EXCEPT !.raced = @ \/ SaverBeside(p)]
    /\ UNCHANGED <<vitalsVars, commandVars>>

\* One write of ioutil.WriteFile; when it fails SaveCachedToken returns the
\* error (gotesla.go:168-171).
SaveWrite(p) ==
    /\ proc[p].pc = "write"
    /\ LET data == JsonMarshal(proc[p].t)
           off == proc[p].off
           n == Min(ChunkLen, Len(data) - off)
       IN \E ok \in BOOLEAN :
           IF ok
           THEN /\ disk' = [disk EXCEPT !.files[proc[p].fd] =
                               WriteAt(@, off, SubSeq(data, off + 1, off + n))]
                /\ proc' = [proc EXCEPT ![p] =
                               [@ EXCEPT !.off = off + n,
                                         !.pc = IF WriteDone(off + n, data)
                                                THEN "rename" ELSE "write"]]
           ELSE /\ disk' = disk
                /\ proc' = [proc EXCEPT ![p] =
                               [@ EXCEPT !.pc = "idle",
                                         !.ret = [op |-> "save",
                                                  err |-> <<"write">>,
                                                  t |-> <<>>]]]
    /\ UNCHANGED <<hist, vitalsVars, commandVars>>

\* os.Rename of the temporary file over the cache file, and the return
\* (gotesla.go:174-180).
SaveRename(p) ==
    /\ proc[p].pc = "rename"
    /\ \E ok \in BOOLEAN :
        IF ok /\ disk.dir[NewPath] # 0
        THEN /\ disk' = Rename(disk, NewPath, TokenCachePath)
             /\ hist' = [hist EXCEPT !.saved = <<proc[p].t>>]
             /\ proc' = [proc EXCEPT ![p] =
                            [@ EXCEPT !.pc = "idle",
                                      !.ret = [op |-> "save", err |-> <<>>,
                                               t |-> <<>>]]]
        ELSE /\ proc' = [proc EXCEPT ![p] =
                            [@ EXCEPT !.pc = "idle",
                                      !.ret = [op |-> "save",
                                               err |-> <<"rename">>,
                                               t |-> <<>>]]]
             /\ UNCHANGED <<disk, hist>>
    /\ UNCHANGED <<vitalsVars, commandVars>>

\* LoadCachedToken down to the opening of the file by ioutil.ReadFile
\* (gotesla.go:217-223).
LoadOpen(p) ==
    /\ proc[p].pc = "idle"
    /\ proc[p].left > 0
    /\ IF disk.dir[TokenCachePath] = 0
       THEN proc' = [proc EXCEPT ![p] =
                        [@ EXCEPT !.left = @ - 1, !.busy = SaverBeside(p),
                                  !.body = <<>>,
                                  !.ret = [op |-> "load", err |-> <<"open">>,
                                           t |-> <<>>]]]
       ELSE proc' = [proc EXCEPT ![p] =
                        [@ EXCEPT !.pc = "read", !.left = @ - 1,
                                  !.busy = SaverBeside(p),
                                  !.fd = disk.dir[TokenCachePath]]]
    /\ UNCHANGED <<disk, hist, vitalsVars, commandVars>>

\* The read of ioutil.ReadFile, the parse and the return (gotesla.go:220-231).
LoadRead(p) ==
    /\ proc[p].pc = "read"
    /\ LET u == JsonUnmarshal(disk.files[proc[p].fd]) IN
        proc' = [proc EXCEPT ![p] =
                    [@ EXCEPT !.pc = "idle", !.body = disk.files[proc[p].fd],
                              !.ret = [op |-> "load", err |-> u.err,
                                       t |-> u.t]]]
    /\ UNCHANGED <<disk, hist, vitalsVars, commandVars>>

\* DeleteCachedToken as it would be if a missing file were no error.
DeleteForce(p) ==
    /\ proc[p].pc = "idle"
    /\ proc[p].left > 0
    /\ disk' = Remove(disk, TokenCachePath)
    /\ hist' = [hist EXCEPT !.saved = <<>>]
    /\ proc' = [proc EXCEPT ![p] =
                   [@ EXCEPT !.left = @ - 1,
                             !.ret = [op |-> "delete", err |-> <<>>,
                                      t |-> <<>>]]]
    /\ UNCHANGED <<vitalsVars, commandVars>>

\* DeleteCachedToken (gotesla.go:235-238).
DeleteCachedToken(p) ==
    /\ proc[p].pc = "idle"
    /\ proc[p].left > 0
    /\ IF disk.dir[TokenCachePath] = 0
       THEN /\ proc' = [proc EXCEPT ![p] =
                           [@ EXCEPT !.left = @ - 1,
                                     !.ret = [op |-> "delete",
                                              err |-> <<"remove">>,
                                              t |-> <<>>]]]
            /\ UNCHANGED <<disk, hist>>
       ELSE /\ disk' = Remove(disk, TokenCachePath)
            /\ hist' = [hist EXCEPT !.saved = <<>>]
            /\ proc' = [proc EXCEPT ![p] =
                           [@ EXCEPT !.left = @ - 1,
                                     !.ret = [op |-> "delete", err |-> <<>>,
                                              t |-> <<>>]]]
    /\ UNCHANGED <<vitalsVars, commandVars>>

\* The tokens of the model: T0 is cached before the run, T1 and T2 are saved.
T0 == Token("a0", "bearer", 3888000, "r0", 1000000)

T1 == Token("a1", "bearer", 3888001, "r1", 1000001)

T2 == Token("a2", "bearer", 3888002, "r2", 4801600)

SavedTokens == {T1, T2}

\* A cache file that is no JSON object.
Corrupt == << <<"#", "", 0>> >>

NoFile == [dir |-> [path \in Paths |-> 0], files |-> <<>>]

DiskHolding(doc) ==
    [dir |-> [path \in Paths |-> IF path = TokenCachePath THEN 1 ELSE 0],
     files |-> <<doc>>]

\* The cache before the run: no file, a token saved earlier, or a file that
\* does not parse.
CacheStarts ==
    {[disk |-> NoFile, saved |-> <<>>],
     [disk |-> DiskHolding(JsonMarshal(T0)), saved |-> <<T0>>],
     [disk |-> DiskHolding(Corrupt), saved |-> <<>>]}

CacheStart ==
    \E c \in CacheStarts :
        /\ disk = c.disk
        /\ hist = [saved |-> c.saved, raced |-> FALSE]

InitCache ==
    /\ Idle /\ din = <<>> /\ cls = "" /\ CommandsAtRest
    /\ CacheStart
    /\ proc = [p \in Procs |-> ProcIdle(MaxOps)]

\* One writer (process 1: saves, deletes, loads) and one reader (process 2),
\* the single-writer use the cache is made for.
NextCache ==
    \/ \E t \in SavedTokens : SaveOpen(1, t)
    \/ SaveWrite(1)
    \/ SaveRename(1)
    \/ DeleteCachedToken(1)
    \/ \E p \in {1, 2} : LoadOpen(p)
    \/ \E p \in {1, 2} : LoadRead(p)

SpecCache == InitCache /\ [][NextCache]_vars

\* Two writers (process 1 saves T1, process 2 saves T2) and a reader
\* (process 3), with no lock between them.
NextRace ==
    \/ SaveOpen(1, T1)
    \/ SaveOpen(2, T2)
    \/ \E p \in {1, 2} : SaveWrite(p)
    \/ \E p \in {1, 2} : SaveRename(p)
    \/ LoadOpen(3)
    \/ LoadRead(3)

InitRace ==
    /\ Idle /\ din = <<>> /\ cls = "" /\ CommandsAtRest
    /\ CacheStart
    /\ proc = [p \in Procs |-> ProcIdle(MaxRaceOps)]

SpecRace == InitRace /\ [][NextRace]_vars

(***************************************************************************)
(* Helpers of the token cache claims.                                      *)
(***************************************************************************)
\* The contents a cache file has when nothing was cut short: a whole token,
\* or the file that stood there before the run.
WholeDocs == {JsonMarshal(T0), JsonMarshal(T1), JsonMarshal(T2), Corrupt}

\* A load by p has returned.
Loaded(p) == proc[p].pc = "idle" /\ proc[p].ret.op = "load"

\* The document is the beginning of a token, and not all of it.
PartOfAToken(doc) ==
    \E t \in SavedTokens :
        /\ Len(doc) < Len(JsonMarshal(t))
        /\ doc = SubSeq(JsonMarshal(t), 1, Len(doc))

(***************************************************************************)
(* Token validity (gotesla.go:240-255) and the checktoken command          *)
(* (cmd/checktoken: checkCached, printCached, deleteCached, main).  The    *)
(* clock now counts ticks; there are Second ticks in a second, so that an  *)
(* instant need not fall on a whole second as the timestamps of a token    *)
(* do.                                                                     *)
(***************************************************************************)
Second == 2

MaxCreatedAt == 2

MaxExpiresIn == 2

\* time.Unix(sec, 0)
Unix(sec) == sec * Second

\* TokenTimes(t)
TokenTimes(t) ==
    [start |-> Unix(t.CreatedAt), end |-> Unix(t.CreatedAt + t.ExpiresIn)]

\* CheckToken(t) at the instant n = time.Now():
\* start.Before(now) && now.Before(end).
CheckToken(t, n) == TokenTimes(t).start < n /\ n < TokenTimes(t).end

\* LoadCachedToken run from its first line to its return with no other
\* process at work (gotesla.go:217-232).
LoadCachedToken(d) ==
    IF d.dir[TokenCachePath] = 0
    THEN [t |-> <<>>, err |-> <<"open">>]
    ELSE JsonUnmarshal(d.files[d.dir[TokenCachePath]])

\* The words after the flags on the command line of checktoken.
CommandLines ==
    {<<>>, <<"check">>, <<"clear">>, <<"print">>, <<"delete">>,
     <<"check", "print">>}

\* main of checktoken, from flag.Parse to the exit of the process
\* (part_001:65-118, with checkCached 21-33, printCached 36-55 and
\* deleteCached 58-63).  os.Exit(1) is the only exit with a status other
\* than 0.
CheckTokenMain ==
    /\ chk.pc = "start"
    /\ \E args \in CommandLines :
        LET r == LoadCachedToken(disk) IN
        IF Len(args) # 1
        THEN /\ stdout' = <<<<"Need exactly one command", "">>>>
             /\ chk' = [pc |-> "exited", args |-> args, valid |-> <<>>,
                        exit |-> 0]
             /\ disk' = disk
        ELSE IF args[1] = "check"
        THEN /\ stdout' = IF r.err # <<>> THEN <<<<"%v", r.err[1]>>>> ELSE <<>>
             /\ chk' = [pc |-> "exited", args |-> args,
                        valid |-> IF r.err # <<>> THEN <<>>
                                  ELSE <<CheckToken(r.t[1], now)>>,
                        exit |-> IF r.err = <<>> /\ CheckToken(r.t[1], now)
                                 THEN 0 ELSE 1]
             /\ disk' = disk
        ELSE IF args[1] = "clear"
        THEN /\ stdout' = IF disk.dir[TokenCachePath] = 0
                          THEN <<<<"%v", "remove">>>> ELSE <<>>
             /\ disk' = Remove(disk, TokenCachePath)
             /\ chk' = [pc |-> "exited", args |-> args, valid |-> <<>>,
                        exit |-> 0]
        ELSE IF args[1] = "print"
        THEN /\ stdout' = IF r.err # <<>> THEN <<<<"%v", r.err[1]>>>>
                          ELSE <<<<"%s\n", r.t[1].AccessToken>>>>
             /\ chk' = [pc |-> "exited", args |-> args, valid |-> <<>>,
                        exit |-> 0]
             /\ disk' = disk
        ELSE /\ stdout' = <<<<"Invalid command", "">>>>
             /\ chk' = [pc |-> "exited", args |-> args, valid |-> <<>>,
                        exit |-> 0]
             /\ disk' = disk
    /\ UNCHANGED <<body, pc, devices, numd, i, vd, out, err, outcomes, calls,
                   first, din, cls, proc, hist, now, http, sc, pw>>

\* The cache files checktoken may find: none, one that does not parse, and
\* a token of every creation time and lifetime up to the bounds.
CheckDisks ==
    {NoFile, DiskHolding(Corrupt)} \cup
    {DiskHolding(JsonMarshal(Token("a0", "bearer", e, "r0", c))) :
         c \in 0..MaxCreatedAt, e \in 0..MaxExpiresIn}

\* Every instant from the epoch to a second past the latest end of a token.
Instants == 0..Unix(MaxCreatedAt + MaxExpiresIn + 1)

InitCheck ==
    /\ Idle /\ din = <<>> /\ cls = ""
    /\ proc = <<>> /\ hist = <<>> /\ http = <<>> /\ sc = <<>> /\ pw = <<>>
    /\ disk \in CheckDisks
    /\ now \in Instants
    /\ chk = [pc |-> "start", args |-> <<>>, valid |-> <<>>, exit |-> 0]

NextCheck == CheckTokenMain

SpecCheck == InitCheck /\ [][NextCheck]_vars

(***************************************************************************)
(* The HTTP helpers (gotesla.go:264-361, powerwall.go:1196-1330) and the   *)
(* typed getters built on them.  A response is what the far end and the    *)
(* network make of one request: whether client.Do returned a response, its *)
(* status, its body, and whether the body could be read to its end.  The   *)
(* result of a helper or getter is [v, err, reqs]: the value returned      *)
(* (<<>> is nil), the error (<<>> is nil) and the requests it issued.      *)
(***************************************************************************)
\* http.StatusOK
StatusOK == 200

\* http.StatusText(code)
StatusText(code) ==
    CASE code = 201 -> "Created"
      [] code = 204 -> "No Content"
      [] code = 401 -> "Unauthorized"
      [] code = 500 -> "Internal Server Error"
      [] OTHER -> ""

\* The part common to the helpers that switch on resp.StatusCode.
GetChecked(resp) ==
    IF ~resp.do THEN [v |-> <<>>, err |-> <<"do">>, reqs |-> 1]
    ELSE IF resp.status # StatusOK
    THEN [v |-> <<>>, err |-> <<StatusText(resp.status)>>, reqs |-> 1]
    ELSE IF ~resp.read THEN [v |-> <<>>, err |-> <<"read">>, reqs |-> 1]
    ELSE [v |-> <<resp.body>>, err |-> <<>>, reqs |-> 1]

\* GetTesla (gotesla.go:267-318).
GetTesla(resp) == GetChecked(resp)

\* PostTesla (gotesla.go:321-357): no look at resp.StatusCode.
PostTesla(resp) ==
    IF ~resp.do THEN [v |-> <<>>, err |-> <<"do">>, reqs |-> 1]
    ELSE IF ~resp.read THEN [v |-> <<>>, err |-> <<"read">>, reqs |-> 1]
    ELSE [v |-> <<resp.body>>, err |-> <<>>, reqs |-> 1]

\* GetPowerwall (powerwall.go:1198-1250).
GetPowerwall(resp) == GetChecked(resp)

\* json.Unmarshal of a response body into the structure of a getter: a
\* syntax error leaves the structure untouched, a member of the wrong type
\* is skipped and reported after the others were stored.
JsonDecode(b) ==
    CASE b = "object" -> [v |-> "filled", err |-> <<>>]
      [] b = "mismatch" -> [v |-> "partial", err |-> <<"json: type">>]
      [] OTHER -> [v |-> "zero", err |-> <<"json: syntax">>]

\* GetPowerwallAuth (powerwall.go:1256-1330): the body is parsed and the
\* login record returned; the error of time.Parse is dropped.
GetPowerwallAuth(resp) ==
    LET r == GetChecked(resp) IN
    IF r.err # <<>> THEN r
    ELSE IF JsonDecode(r.v[1]).err # <<>>
    THEN [v |-> <<>>, err |-> JsonDecode(r.v[1]).err, reqs |-> r.reqs]
    ELSE [v |-> <<JsonDecode(r.v[1]).v>>, err |-> <<>>, reqs |-> r.reqs]

Helpers == {"GetTesla", "PostTesla", "GetPowerwall", "GetPowerwallAuth"}

Helper(h, resp) ==
    CASE h = "GetTesla" -> GetTesla(resp)
      [] h = "PostTesla" -> PostTesla(resp)
      [] h = "GetPowerwall" -> GetPowerwall(resp)
      [] h = "GetPowerwallAuth" -> GetPowerwallAuth(resp)

\* The typed getters: the helper each calls and what each returns beside a
\* non-nil error: nil (a pointer result), a zero literal (0.0, false,
\* GridStatusUnknown), or the variable it declared, whatever it holds.
TypedGetters ==
    {[name |-> "GetMeterAggregate", helper |-> "GetPowerwall", onErr |-> "nil"],
     [name |-> "GetSystemStatus", helper |-> "GetPowerwall", onErr |-> "nil"],
     [name |-> "GetSoe", helper |-> "GetPowerwall", onErr |-> "zero"],
     [name |-> "GetGridStatus", helper |-> "GetPowerwall", onErr |-> "zero"],
     [name |-> "GetSiteMaster", helper |-> "GetPowerwall", onErr |-> "nil"],
     [name |-> "GetVitals", helper |-> "GetPowerwall", onErr |-> "nil"],
     [name |-> "GetVehicles", helper |-> "GetTesla", onErr |-> "nil"],
     [name |-> "GetChargeState", helper |-> "GetTesla", onErr |-> "nil"],
     [name |-> "GetClimateState", helper |-> "GetTesla", onErr |-> "nil"],
     [name |-> "GetDriveState", helper |-> "GetTesla", onErr |-> "nil"],
     [name |-> "GetGuiSettings", helper |-> "GetTesla", onErr |-> "nil"],
     [name |-> "GetVehicleState", helper |-> "GetTesla", onErr |-> "nil"],
     [name |-> "GetVehicleConfig", helper |-> "GetTesla", onErr |-> "nil"],
     [name |-> "GetVehicleData", helper |-> "GetTesla", onErr |-> "nil"],
     [name |-> "GetMobileEnabled", helper |-> "GetTesla", onErr |-> "zero"],
     [name |-> "GetNearbyChargers", helper |-> "GetTesla", onErr |-> "var"]}

\* What a getter returns beside an error, its variable holding held.
ResultOnError(g, held) ==
    CASE g.onErr = "nil" -> <<>>
      [] g.onErr = "zero" -> <<"zero">>
      [] OTHER -> <<held>>

\* A getter as it would be if it asked once more after a failure.
TypedGetterRetries(g, resp) ==
    LET r == Helper(g.helper, resp) IN
    IF r.err # <<>>
    THEN [v |-> ResultOnError(g, "zero"), err |-> Helper(g.helper, resp).err,
          reqs |-> r.reqs + Helper(g.helper, resp).reqs]
    ELSE IF JsonDecode(r.v[1]).err # <<>>
    THEN [v |-> ResultOnError(g, JsonDecode(r.v[1]).v),
          err |-> JsonDecode(r.v[1]).err, reqs |-> r.reqs]
    ELSE [v |-> <<JsonDecode(r.v[1]).v>>, err |-> <<>>, reqs |-> r.reqs]

\* A typed getter: one call of its helper, the error returned if there is
\* one, then the parse, the error returned if there is one, then the
\* result (GetMeterAggregate powerwall.go:273-293, GetChargeState
\* gotesla.go:474-491, and the others after the same pattern).
TypedGetter(g, resp) ==
    LET r == Helper(g.helper, resp) IN
    IF r.err # <<>>
    THEN [v |-> ResultOnError(g, "zero"), err |-> r.err, reqs |-> r.reqs]
    ELSE IF JsonDecode(r.v[1]).err # <<>>
    THEN [v |-> ResultOnError(g, JsonDecode(r.v[1]).v),
          err |-> JsonDecode(r.v[1]).err, reqs |-> r.reqs]
    ELSE [v |-> <<JsonDecode(r.v[1]).v>>, err |-> <<>>, reqs |-> r.reqs]

\* The responses of the model: no response at all, or a status, a body and
\* a read that ends well or not.
Responses ==
    {[do |-> FALSE, status |-> 0, body |-> "", read |-> FALSE]} \cup
    [do : {TRUE}, status : {200, 201, 204, 401, 500},
     body : {"object", "mismatch", "garbage"}, read : BOOLEAN]

CallHelper ==
    /\ \E h \in Helpers, resp \in Responses :
        http' = [fn |-> h, resp |-> resp, ret |-> Helper(h, resp)]
    /\ UNCHANGED <<vitalsVars, cacheVars, now, chk, sc, pw>>

CallGetter ==
    /\ \E g \in TypedGetters, resp \in Responses :
        http' = [fn |-> g.name, resp |-> resp, ret |-> TypedGetter(g, resp)]
    /\ UNCHANGED <<vitalsVars, cacheVars, now, chk, sc, pw>>

InitHttp ==
    /\ Idle /\ din = <<>> /\ cls = "" /\ CacheAtRest
    /\ now = 0 /\ chk = <<>> /\ sc = <<>> /\ pw = <<>>
    /\ http = [fn |-> "", resp |-> [do |-> FALSE, status |-> 0, body |-> "",
                                    read |-> FALSE],
               ret |-> [v |-> <<>>, err |-> <<>>, reqs |-> 0]]

NextHttp == CallHelper \/ CallGetter

SpecHttp == InitHttp /\ [][NextHttp]_vars

(***************************************************************************)
(* scimport (part_005:223-375): the token is loaded once, then every poll  *)
(* cycle looks at the remaining lifetime of the token, refreshes it when   *)
(* under a day is left, asks for the chargers near each vehicle and        *)
(* sleeps.                                                                 *)
(***************************************************************************)
MaxCycles == 2

\* if h < 24.0 (part_005:286)
RefreshHours == 24

\* sleepTime := (15 + rand.Intn(30)) (part_005:368)
SleepBase == 15

SleepSpread == 30

Hour == 3600 * Second

\* TokenLifetime(t) at the instant n: the time left until the end of the
\* token.
TokenLifetime(t, n) == TokenTimes(t).end - n

\* tokenAuthCommon with the response resp to its POST (gotesla.go:124-152).
tokenAuthCommon(resp) ==
    LET r == PostTesla(resp) IN
    IF r.err # <<>> THEN [t |-> <<>>, err |-> r.err]
    ELSE JsonUnmarshal(r.v[1])

\* RefreshToken (gotesla.go:108-119).
RefreshToken(token, resp) == tokenAuthCommon(resp)

\* SaveCachedToken run from its first line to its return with no other
\* process at work; how names the step that fails, if one does
\* (gotesla.go:160-181).
SaveCachedToken(d, t, how) ==
    LET opened == OpenTrunc(d, NewPath)
        written == [opened EXCEPT !.files[opened.dir[NewPath]] = JsonMarshal(t)]
    IN  CASE how = "write" -> [disk |-> opened, err |-> <<"write">>]
          [] how = "rename" -> [disk |-> written, err |-> <<"rename">>]
          [] OTHER -> [disk |-> Rename(written, NewPath, TokenCachePath),
                       err |-> <<>>]

\* RefreshAndCacheToken (gotesla.go:203-214).
RefreshAndCacheToken(d, token, resp, how) ==
    LET r == RefreshToken(token, resp) IN
    IF r.err # <<>> THEN [t |-> r.t, err |-> r.err, disk |-> d]
    ELSE LET saved == SaveCachedToken(d, r.t[1], how) IN
         [t |-> r.t, err |-> saved.err, disk |-> saved.disk]

\* What the server may answer to a refresh: nothing, the new token, an
\* error object under an error status, a page that is no JSON, or a body
\* that breaks off.
ErrorDoc == << <<"error", "invalid_grant", 0>>, CloseBrace >>

RefreshResponses ==
    {[do |-> FALSE, status |-> 0, body |-> <<>>, read |-> FALSE],
     [do |-> TRUE, status |-> 200, body |-> JsonMarshal(T2), read |-> TRUE],
     [do |-> TRUE, status |-> 200, body |-> JsonMarshal(T2), read |-> FALSE],
     [do |-> TRUE, status |-> 401, body |-> ErrorDoc, read |-> TRUE],
     [do |-> TRUE, status |-> 500, body |-> Corrupt, read |-> TRUE]}

\* main down to the loop: the cached token, the list of vehicles
\* (part_005:223-277).
ScStart ==
    /\ sc.pc = "start"
    /\ LET r == LoadCachedToken(disk) IN
       \E ok \in BOOLEAN :
        IF r.err # <<>>
        THEN sc' = [sc EXCEPT !.pc = "exit"]
        ELSE IF ~ok
        THEN sc' = [sc EXCEPT !.pc = "exit", !.token = r.t, !.used = r.t]
        ELSE sc' = [sc EXCEPT !.pc = "top", !.token = r.t, !.used = r.t]
    /\ UNCHANGED <<vitalsVars, cacheVars, now, http, chk, pw>>

\* The head of the loop: the lifetime of the token and the refresh
\* (part_005:279-297).
ScTop ==
    /\ sc.pc = "top"
    /\ sc.cycles < MaxCycles
    /\ IF TokenLifetime(sc.token[1], now) < RefreshHours * Hour
       THEN \E resp \in RefreshResponses, how \in {"ok", "write", "rename"} :
               LET r == RefreshAndCacheToken(disk, sc.token[1], resp, how) IN
               /\ disk' = r.disk
               /\ sc' = [sc EXCEPT !.pc = "poll",
                                   !.token = IF r.err # <<>> THEN @ ELSE r.t,
                                   !.attempt = <<[resp |-> resp, how |-> how]>>]
       ELSE /\ disk' = disk
            /\ sc' = [sc EXCEPT !.pc = "poll", !.attempt = <<>>]
    /\ UNCHANGED <<vitalsVars, proc, hist, now, http, chk, pw>>

\* The requests of the cycle, each made with the token in use
\* (part_005:299-366).
ScPoll ==
    /\ sc.pc = "poll"
    /\ sc' = [sc EXCEPT !.pc = "sleep", !.used = sc.token]
    /\ UNCHANGED <<vitalsVars, cacheVars, now, http, chk, pw>>

\* The pause between two cycles (part_005:368-372).
ScSleep ==
    /\ sc.pc = "sleep"
    /\ \E r \in {0, SleepSpread - 1} :
        now' = now + (SleepBase + r) * Second
    /\ sc' = [sc EXCEPT !.pc = "top", !.cycles = @ + 1]
    /\ UNCHANGED <<vitalsVars, cacheVars, http, chk, pw>>

\* scimport starts around the instant at which a day is left to T0.
InitSc ==
    /\ Idle /\ din = <<>> /\ cls = ""
    /\ proc = <<>> /\ hist = <<>> /\ http = <<>> /\ chk = <<>> /\ pw = <<>>
    /\ disk \in {DiskHolding(JsonMarshal(T0)), DiskHolding(Corrupt), NoFile}
    /\ now \in {TokenTimes(T0).end - RefreshHours * Hour - d * Second :
                   d \in {20, 50, -5}}
    /\ sc = [pc |-> "start", token |-> <<>>, used |-> <<>>, cycles |-> 0,
             attempt |-> <<>>]

NextSc == ScStart \/ ScTop \/ ScPoll \/ ScSleep

SpecSc == InitSc /\ [][NextSc]_vars

(***************************************************************************)
(* pwimport (cmd/pwimport/main.go:118-416): the flags, the login, then the *)
(* loop for ; ; time.Sleep(...): the getters one after the other, the      *)
(* points, the write to the database, the re-login when the login is old.  *)
(* -poll and -refresh are counted in ticks.                                *)
(***************************************************************************)
\* flag.Float64Var(&pollTime, "poll", 10.0, ...)
DefaultPoll == 10

\* flag.Float64Var(&refreshTime, "refresh", 3600.0, ...)
DefaultRefresh == 3600

PollTimes == {0, 1, Second, 2 * Second + 1, DefaultPoll * Second}

RefreshTimes == {Second, DefaultRefresh * Second}

\* time.Duration(pollTime) * time.Second: the conversion drops the
\* fraction of pollTime.
SleepDuration(pollTime) == (pollTime \div Second) * Second

\* The login record of a response, stamped with the login time when
\* time.Parse could read it (powerwall.go:1320-1329).
Login(resp, parsed, n) ==
    LET r == GetPowerwallAuth(resp) IN
    IF r.err # <<>> THEN [pwa |-> <<>>, err |-> r.err]
    ELSE [pwa |-> <<[stamp |-> IF parsed THEN <<n>> ELSE <<>>]>>,
          err |-> <<>>]

\* time.Since(pwa.Timestamp).Seconds() > refreshTime
LoginIsOld(pwa, n, refreshTime) ==
    pwa[1].stamp = <<>> \/ n - pwa[1].stamp[1] > refreshTime

\* main down to the loop (main.go:118-179).
PwStart ==
    /\ pw.pc = "start"
    /\ IF pw.creds
       THEN \E resp \in Responses, parsed \in BOOLEAN :
               LET l == Login(resp, parsed, now) IN
               pw' = [pw EXCEPT !.pc = IF l.err # <<>> THEN "exit" ELSE "cycle",
                                !.pwa = l.pwa]
       ELSE pw' = [pw EXCEPT !.pc = "cycle"]
    /\ UNCHANGED <<vitalsVars, cacheVars, now, http, chk, sc>>

\* The answers the gateway gives in a cycle: the object asked for, a
\* refusal (the login has lapsed), or a body that is no JSON.
PwGood == [do |-> TRUE, status |-> 200, body |-> "object", read |-> TRUE]

PwResponses ==
    {PwGood,
     [do |-> TRUE, status |-> 401, body |-> "object", read |-> TRUE],
     [do |-> TRUE, status |-> 200, body |-> "garbage", read |-> TRUE]}

\* The getters of a cycle in the order of their calls (main.go:187-241).
PwGetters ==
    <<"GetMeterAggregate", "GetSoe", "GetGridStatus", "GetSiteMaster",
      "GetSystemStatus">>

Fetch(k, resp) ==
    TypedGetter(CHOOSE g \in TypedGetters : g.name = PwGetters[k], resp)

NoFetch == [reqs |-> 0, fetched |-> 0, cut |-> 0]

\* The getters as they would run if an error did not end the pass.
RECURSIVE FetchAllNoContinue(_, _, _)
FetchAllNoContinue(resps, k, acc) ==
    IF k > Len(PwGetters) THEN acc
    ELSE LET r == Fetch(k, resps[k]) IN
         FetchAllNoContinue(resps, k + 1,
             [acc EXCEPT !.reqs = @ + r.reqs,
                         !.fetched = @ + (IF r.err = <<>> THEN 1 ELSE 0)])

\* The getters from the k-th on: each is called once, and the first error
\* ends the pass with continue (main.go:187-241); cut is the getter that
\* failed, 0 if none did.
RECURSIVE FetchAll(_, _, _)
FetchAll(resps, k, acc) ==
    IF k > Len(PwGetters) THEN acc
    ELSE LET r == Fetch(k, resps[k]) IN
         IF r.err # <<>>
         THEN [acc EXCEPT !.reqs = @ + r.reqs, !.cut = k]
         ELSE FetchAll(resps, k + 1,
                  [acc EXCEPT !.reqs = @ + r.reqs, !.fetched = @ + 1])

\* battery_blocks of a system_status response holds at most MaxBlocks
\* blocks.
MaxBlocks == 2

\* The j-th block of a response, told from the others by its energies.
Block(j) == [EnergyCharged |-> j, EnergyDischarged |-> j + 1]

\* The parsed system_status responses (SystemStatusResponse,
\* powerwall.go:295-302): available_blocks and battery_blocks are two
\* members of the document, each as the gateway sent it.
SystemStatuses ==
    [AvailableBlocks : 0..MaxBlocks,
     BatteryBlocks : {[j \in 1..n |-> Block(j)] : n \in 0..MaxBlocks}]

NoBlocks ==
    [panic |-> FALSE, index |-> -1, read |-> {}, totalCharged |-> 0,
     totalDischarged |-> 0]

\* for i = 0; i < sysstat.AvailableBlocks; i++ (main.go:354-368; ix is i,
\* part_004:88-100): sysstat.BatteryBlocks[i] is read, an index at or past
\* the length of the slice panics; a block whose point could not be made
\* (failed) is passed over, the others are added to the totals.  index is
\* the last index used, read the indices read within the slice.
RECURSIVE BatteryLoop(_, _, _, _)
BatteryLoop(sysstat, failed, ix, acc) ==
    IF ~(ix < sysstat.AvailableBlocks) THEN acc
    ELSE IF ix >= Len(sysstat.BatteryBlocks)
    THEN [acc EXCEPT !.panic = TRUE, !.index = ix]
    ELSE IF ix \in failed
    THEN BatteryLoop(sysstat, failed, ix + 1,
             [acc EXCEPT !.index = ix, !.read = @ \cup {ix}])
    ELSE BatteryLoop(sysstat, failed, ix + 1,
             [acc EXCEPT !.index = ix, !.read = @ \cup {ix},
                         !.totalCharged =
                             @ + sysstat.BatteryBlocks[ix + 1].EnergyCharged,
                         !.totalDischarged =
                             @ + sysstat.BatteryBlocks[ix + 1].EnergyDischarged])

NoSystemStatus == [AvailableBlocks |-> 0, BatteryBlocks |-> <<>>]

\* The answers of the gateway to the getters of a pass: all as asked
\* for, or the k-th a failure (what it would answer to the getters after
\* that one is never asked).
PwAnswers ==
    {[j \in 1..Len(PwGetters) |-> PwGood]} \cup
    {[j \in 1..Len(PwGetters) |-> IF j = k THEN bad ELSE PwGood] :
        k \in 1..Len(PwGetters), bad \in PwResponses \ {PwGood}}

\* One pass of the loop body (main.go:184-414).  resps are the answers of
\* the gateway to the getters, took the time the pass takes, point names
\* where a point could not be made, if anywhere: before the loop over the
\* blocks (NewBatchPoints, makeMeterPoint, NewPoint) or after it
\* (makeFullPackEnergyPoint2); failed holds the block whose point could
\* not be made, if there is one.  The batch is written once, an error of
\* the write is only logged; then the login is renewed if it is old.
PwCycle ==
    /\ pw.pc = "cycle"
    /\ pw.cycles < MaxCycles
    /\ \E took \in {0, 1}, resps \in PwAnswers :
        LET f == FetchAll(resps, 1, NoFetch)
            passed == [pw EXCEPT !.cycles = @ + 1, !.cookie = pw.pwa # <<>>,
                                 !.reqs = f.reqs, !.fetched = f.fetched,
                                 !.wrote = 0, !.reauth = FALSE,
                                 !.sysstat = NoSystemStatus,
                                 !.blocks = NoBlocks]
        IN
        /\ now' = now + took
        /\ \/ /\ f.cut # 0
              /\ pw' = [passed EXCEPT !.pc = "sleep", !.cut = TRUE,
                                      !.skipped = @ + 1]
           \/ /\ f.cut = 0
              /\ pw' = [passed EXCEPT !.pc = "sleep", !.cut = TRUE,
                                      !.skipped = @ + 1]
           \/ /\ f.cut = 0
              /\ \E sysstat \in SystemStatuses,
                    failed \in {{}} \cup {{j} : j \in 0..(MaxBlocks - 1)},
                    after \in BOOLEAN :
                  LET loop == BatteryLoop(sysstat, failed, 0, NoBlocks)
                      done == [passed EXCEPT !.sysstat = sysstat,
                                             !.blocks = loop]
                  IN
                  IF loop.panic
                  THEN pw' = [done EXCEPT !.pc = "panic", !.cut = TRUE]
                  ELSE IF after
                  THEN pw' = [done EXCEPT !.pc = "sleep", !.cut = TRUE,
                                          !.skipped = @ + 1]
                  ELSE IF pw.pwa # <<>>
                          /\ LoginIsOld(pw.pwa, now', pw.refresh)
                          /\ pw.creds
                  THEN \E resp \in PwResponses, parsed \in BOOLEAN :
                          pw' = [done EXCEPT
                                    !.pc = "sleep", !.cut = FALSE,
                                    !.wrote = 1, !.reauth = TRUE,
                                    !.pwa = Login(resp, parsed, now').pwa]
                  ELSE pw' = [done EXCEPT !.pc = "sleep", !.cut = FALSE,
                                          !.wrote = 1]
    /\ UNCHANGED <<vitalsVars, cacheVars, http, chk, sc>>

\* The post statement of the loop: time.Sleep(time.Duration(pollTime) *
\* time.Second) (main.go:182).  The variables declared in the body are
\* gone with the pass.
PwSleep ==
    /\ pw.pc = "sleep"
    /\ now' = now + SleepDuration(pw.poll)
    /\ pw' = [pw EXCEPT !.pc = "cycle", !.slept = SleepDuration(pw.poll),
                        !.sysstat = NoSystemStatus, !.blocks = NoBlocks]
    /\ UNCHANGED <<vitalsVars, cacheVars, http, chk, sc>>

InitPw ==
    /\ Idle /\ din = <<>> /\ cls = "" /\ CacheAtRest
    /\ http = <<>> /\ chk = <<>> /\ sc = <<>>
    /\ now = 0
    /\ \E poll \in PollTimes, refresh \in RefreshTimes, creds \in BOOLEAN :
        pw = [pc |-> "start", poll |-> poll, refresh |-> refresh,
              creds |-> creds, pwa |-> <<>>, cycles |-> 0, cut |-> FALSE,
              wrote |-> 0, slept |-> 0, cookie |-> FALSE, reqs |-> 0,
              fetched |-> 0, reauth |-> FALSE, skipped |-> 0,
              sysstat |-> NoSystemStatus, blocks |-> NoBlocks]

NextPw == PwStart \/ PwCycle \/ PwSleep

SpecPw == InitPw /\ [][NextPw]_vars

\* The loop keeps running: a pass that can be made is made, and the pause
\* after it ends.
SpecPwFair ==
    SpecPw /\ WF_vars(PwStart) /\ WF_vars(PwCycle) /\ WF_vars(PwSleep)

(***************************************************************************)
(* C11. With one process saving (the temporary file written in several     *)
(* writes, then renamed) and others loading at any interleaving, a load    *)
(* that returns has either found no cache file (an error, no token), or    *)
(* read a whole document (the content that stood in the cache before, or   *)
(* all of the token of a save) and returns its parse; never a part of a    *)
(* token.                                                                  *)
(***************************************************************************)
C11_LoadSeesWholeToken ==
    \A p \in Procs :
        Loaded(p) =>
            \/ proc[p].ret.err = <<"open">> /\ proc[p].ret.t = <<>>
            \/ /\ proc[p].body \in WholeDocs
               /\ ~PartOfAToken(proc[p].body)
               /\ proc[p].ret.err = JsonUnmarshal(proc[p].body).err
               /\ proc[p].ret.t = JsonUnmarshal(proc[p].body).t

\* A load that began while a save was under way returned the whole token
\* cached before, the save has since put its own token in place, and a
\* third save is in the middle of its writes.
C11_Witness ==
    /\ Loaded(2)
    /\ proc[2].busy
    /\ proc[2].ret.t = <<T0>>
    /\ proc[2].ret.err = <<>>
    /\ hist.saved = <<T1>>
    /\ proc[1].pc = "write"
    /\ proc[1].off > 0

(***************************************************************************)
(* C12. Two processes saving at the same time share the temporary file:    *)
(* the file at TokenCachePath holds something other than a whole document  *)
(* only after two saves overlapped, and a load does observe a part of a    *)
(* token there (the witness).                                              *)
(***************************************************************************)
C12_TornOnlyAfterRace ==
    /\ (disk.dir[TokenCachePath] # 0
        /\ disk.files[disk.dir[TokenCachePath]] \notin WholeDocs) => hist.raced
    /\ \A p \in Procs :
        (Loaded(p) /\ proc[p].ret.err # <<"open">>
         /\ proc[p].body \notin WholeDocs) => hist.raced

\* The reader has read a part of a token, at least one piece of it, from
\* the file at TokenCachePath and got the parse error for it.
C12_Witness ==
    /\ Loaded(3)
    /\ proc[3].ret.err = <<"json">>
    /\ Len(proc[3].body) >= 1
    /\ PartOfAToken(proc[3].body)
    /\ hist.raced

(***************************************************************************)
(* C14. Round trip: once a save of t has returned nil, and until the next  *)
(* successful save or delete, the cache file parses to a token equal to t  *)
(* in all five fields, and a load of the saving process returns that token *)
(* with a nil error; so after several saves it is the token of the last.   *)
(***************************************************************************)
C14_RoundTrip ==
    /\ hist.saved # <<>> =>
        /\ disk.dir[TokenCachePath] # 0
        /\ JsonUnmarshal(disk.files[disk.dir[TokenCachePath]]) =
               [t |-> hist.saved, err |-> <<>>]
    /\ (Loaded(1) /\ hist.saved # <<>>) =>
        /\ proc[1].ret.t = hist.saved
        /\ proc[1].ret.err = <<>>

\* The writer saved twice and then loaded the token of its second save; the
\* reader had loaded the token of the first.
C14_Witness ==
    /\ Loaded(1)
    /\ proc[1].left = MaxOps - 3
    /\ proc[1].ret.t = <<T2>>
    /\ proc[1].t = T2
    /\ Loaded(2)
    /\ proc[2].ret.t = <<T1>>

(***************************************************************************)
(* C15. A load that finds no cache file, or a file that is no valid JSON,  *)
(* returns an error and no token; a delete of an existing file returns nil *)
(* and leaves no cache file, and none appears until a save renames one     *)
(* into place and returns nil; a delete without a cache file returns an    *)
(* error and changes nothing on disk.                                      *)
(***************************************************************************)
C15_LoadAndDeleteErrors ==
    [][\A p \in Procs :
          /\ (LoadOpen(p) /\ disk.dir[TokenCachePath] = 0) =>
                (proc'[p].ret.err # <<>> /\ proc'[p].ret.t = <<>>
                 /\ proc'[p].ret.op = "load" /\ proc'[p].pc = "idle")
          /\ (LoadRead(p) /\ ~ValidJSON(disk.files[proc[p].fd])) =>
                (proc'[p].ret.err # <<>> /\ proc'[p].ret.t = <<>>)
          /\ (DeleteCachedToken(p) /\ disk.dir[TokenCachePath] = 0) =>
                (proc'[p].ret.err # <<>> /\ disk' = disk)
          /\ (DeleteCachedToken(p) /\ disk.dir[TokenCachePath] # 0) =>
                (proc'[p].ret.err = <<>> /\ disk'.dir[TokenCachePath] = 0)
          /\ (disk.dir[TokenCachePath] = 0 /\ disk'.dir[TokenCachePath] # 0) =>
                \E q \in Procs :
                    /\ SaveRename(q)
                    /\ proc'[q].ret = [op |-> "save", err |-> <<>>, t |-> <<>>]
      ]_vars

\* The cache held T0, a delete returned nil, and a load that began after it
\* failed for want of the file.
C15_Witness ==
    /\ Len(disk.files) >= 1
    /\ disk.files[1] = JsonMarshal(T0)
    /\ disk.dir[TokenCachePath] = 0
    /\ proc[1].pc = "idle"
    /\ proc[1].ret = [op |-> "delete", err |-> <<>>, t |-> <<>>]
    /\ Loaded(2)
    /\ proc[2].ret.err = <<"open">>
    /\ proc[2].ret.t = <<>>

(***************************************************************************)
(* Helpers of the token validity claims.                                   *)
(***************************************************************************)
\* The token of the cache file, when the file holds one.
CachedToken == LoadCachedToken(disk).t

\* The instant n lies in [created_at, created_at + expires_in).
InHalfOpenInterval(t, n) ==
    Unix(t.CreatedAt) <= n /\ n < Unix(t.CreatedAt + t.ExpiresIn)

\* checktoken check has run to its exit.
Checked == chk.pc = "exited" /\ chk.args = <<"check">>

(***************************************************************************)
(* C13. CheckToken(t) is true exactly when now lies in the half-open       *)
(* interval [created_at, created_at + expires_in): true at now =           *)
(* created_at, false at now = created_at + expires_in.  (As stated; the    *)
(* code is false at now = created_at.)                                     *)
(***************************************************************************)
C13_HalfOpenInterval ==
    (Checked /\ chk.valid # <<>>) =>
        (chk.valid[1] <=> InHalfOpenInterval(CachedToken[1], now))

(***************************************************************************)
(* C18. checktoken check exits with status 0 exactly when the cached token *)
(* loads and is valid by its timestamps (now within [created_at,           *)
(* created_at + expires_in)), and with status 1 otherwise.  (As stated; it *)
(* fails only at now = created_at, where CheckToken is false.)             *)
(***************************************************************************)
C18_ExitZeroIffValid ==
    Checked =>
        /\ chk.exit \in {0, 1}
        /\ chk.exit = 0 <=>
              (CachedToken # <<>> /\ InHalfOpenInterval(CachedToken[1], now))

\* The exit status follows the verdict of CheckToken in every case.
C18_ExitFollowsCheckToken ==
    Checked =>
        /\ chk.exit \in {0, 1}
        /\ chk.exit = 0 <=>
              (CachedToken # <<>> /\ CheckToken(CachedToken[1], now))

(***************************************************************************)
(* Helpers of the HTTP claims.                                             *)
(***************************************************************************)
\* The request failed: no response, a status outside 200..299, or a body
\* that could not be read.
RequestFailed(resp) ==
    ~resp.do \/ ~resp.read \/ resp.status < 200 \/ resp.status > 299

GetterNames == {g.name : g \in TypedGetters}

GetterCalled == CHOOSE g \in TypedGetters : g.name = http.fn

\* The error the helper of the called getter returned, or else the error
\* of the parse.
GetterFailure ==
    LET r == Helper(GetterCalled.helper, http.resp) IN
    IF r.err # <<>> THEN r.err ELSE JsonDecode(r.v[1]).err

(***************************************************************************)
(* C16. Each HTTP helper returns an error and no body whenever the status  *)
(* is not 2xx or the network fails, and the body with a nil error when the *)
(* status is 2xx.  (As stated; PostTesla returns the body of any status.)  *)
(***************************************************************************)
C16_ErrorIffNot2xx ==
    http.fn \in Helpers =>
        IF RequestFailed(http.resp)
        THEN http.ret.err # <<>> /\ http.ret.v = <<>>
        ELSE http.ret.err = <<>> /\ http.ret.v # <<>>

(***************************************************************************)
(* C17 as stated: each typed getter issues exactly one request per call,   *)
(* and when the transport or the parse fails it returns that error with a  *)
(* nil or zero result.                                                     *)
(***************************************************************************)
C17_OneRequestZeroResult ==
    http.fn \in GetterNames =>
        /\ http.ret.reqs = 1
        /\ GetterFailure # <<>> =>
              /\ http.ret.err = GetterFailure
              /\ http.ret.v \in {<<>>, <<"zero">>}

(***************************************************************************)
(* C17 amended: each typed getter issues exactly one request per call and  *)
(* returns the error of the transport or of the parse as it got it; the    *)
(* result beside the error is nil or zero, except that GetNearbyChargers   *)
(* returns its response structure as the parse left it, which after a      *)
(* member of the wrong type holds the other members.                       *)
(***************************************************************************)
C17_OneRequestSameError ==
    http.fn \in GetterNames =>
        /\ http.ret.reqs = 1
        /\ GetterFailure = <<>> => (http.ret.err = <<>> /\ http.ret.v = <<"filled">>)
        /\ GetterFailure # <<>> =>
              /\ http.ret.err = GetterFailure
              /\ IF http.fn = "GetNearbyChargers"
                    /\ GetterFailure = <<"json: type">>
                 THEN http.ret.v = <<"partial">>
                 ELSE http.ret.v \in {<<>>, <<"zero">>}

\* GetNearbyChargers got a body with a member of the wrong type and
\* returned the parse error with the partly filled structure.
C17_Witness ==
    /\ http.fn = "GetNearbyChargers"
    /\ http.resp.body = "mismatch"
    /\ http.ret.err = <<"json: type">>
    /\ http.ret.v = <<"partial">>
    /\ http.ret.reqs = 1

(***************************************************************************)
(* Helpers of the claims on the import loops.                              *)
(***************************************************************************)
\* The server granted the refresh and the new token reached the cache.
RefreshSucceeded(a) ==
    /\ ~RequestFailed(a.resp)
    /\ ValidJSON(a.resp.body)
    /\ a.how = "ok"

(***************************************************************************)
(* C19. scimport renews its token near expiry: at the head of every cycle  *)
(* a refresh is attempted if under 24 hours are left; after a successful   *)
(* refresh the requests use the new token and the cache file holds it;     *)
(* after a failed refresh the old token stays in use and in the cache, and *)
(* the cycle still runs.  (As stated; an error status with a JSON body is  *)
(* taken for a token.)                                                     *)
(***************************************************************************)
C19_RenewsNearExpiry ==
    [][/\ ScTop =>
            /\ sc'.pc = "poll"
            /\ (TokenLifetime(sc.token[1], now) < RefreshHours * Hour)
                   <=> (sc'.attempt # <<>>)
            /\ (sc'.attempt # <<>> /\ RefreshSucceeded(sc'.attempt[1])) =>
                   /\ sc'.token = JsonUnmarshal(sc'.attempt[1].resp.body).t
                   /\ LoadCachedToken(disk').t = sc'.token
            /\ (sc'.attempt # <<>> /\ ~RefreshSucceeded(sc'.attempt[1])) =>
                   /\ sc'.token = sc.token
                   /\ LoadCachedToken(disk') = LoadCachedToken(disk)
       /\ ScPoll => sc'.used = sc.token
      ]_vars

(***************************************************************************)
(* C20. Between two consecutive poll cycles pwimport pauses for the number *)
(* of seconds given by -poll, fractions included, also after a cycle cut   *)
(* short by an error.  (As stated; the pause is -poll without its          *)
(* fraction.)                                                              *)
(***************************************************************************)
C20_PausesForPollSeconds ==
    [][/\ (PwCycle /\ pw'.pc # "panic") => pw'.pc = "sleep"
       /\ PwSleep => (now' - now = pw.poll /\ pw'.pc = "cycle")
      ]_vars

(***************************************************************************)
(* Helpers of the claims on the passes of pwimport.                        *)
(***************************************************************************)
\* pwimport holds a login and the login is older than -refresh.
TokenIsOld == pw.pwa # <<>> /\ LoginIsOld(pw.pwa, now, pw.refresh)

\* A pass of the loop is about to be made.
PassAhead == pw.pc = "cycle" /\ pw.cycles < MaxCycles

(***************************************************************************)
(* C21. Liveness of the token refresh of pwimport: started with -email and *)
(* -password, whenever the age of the login exceeds -refresh, the pass     *)
(* that follows ends with a re-authentication attempted, also when a fetch *)
(* from the gateway fails in it; a pass that ends in a panic is left       *)
(* aside.  (As stated; a pass cut short by continue never reaches the      *)
(* renewal.)                                                               *)
(***************************************************************************)
C21_ReauthWhenOld ==
    [][(PassAhead /\ pw.creds /\ TokenIsOld /\ pw'.pc # "panic")
       => (pw'.pc = "sleep" /\ pw'.reauth)]_vars

(***************************************************************************)
(* C22. In every pass of pwimport the database is written at most once,    *)
(* and only after all five fetches of that pass succeeded; a pass in which *)
(* a fetch fails asks for nothing more and writes nothing, the failed      *)
(* fetch is not repeated, and the next pass begins with the first getter.  *)
(***************************************************************************)
C22_WriteAfterAllFetches ==
    [][PwCycle =>
          /\ pw'.cycles = pw.cycles + 1
          /\ pw'.wrote \in {0, 1}
          /\ pw'.wrote = 1 =>
                (pw'.fetched = Len(PwGetters) /\ pw'.reqs = Len(PwGetters))
          /\ pw'.fetched < Len(PwGetters) =>
                /\ pw'.wrote = 0
                /\ pw'.reqs = pw'.fetched + 1
                /\ pw'.pc = "sleep"
      ]_vars

\* The first pass wrote its batch; in the second the third fetch failed
\* and nothing was written.
C22_Witness ==
    /\ pw.pc = "sleep"
    /\ pw.cycles = 2
    /\ pw.skipped = 1
    /\ pw.fetched = 2
    /\ pw.reqs = 3
    /\ pw.wrote = 0

(***************************************************************************)
(* C27. pwimport started with -email and -password: once the login at the  *)
(* start succeeded, the login record is there at the start of every pass   *)
(* and every request of a pass carries the AuthCookie; a failed            *)
(* re-authentication does not leave the loop without one.  (As stated; a   *)
(* failed re-authentication leaves pwa nil.)                               *)
(***************************************************************************)
C27_AuthKept ==
    (pw.creds /\ pw.pc \in {"cycle", "sleep", "panic"}) =>
        /\ pw.pwa # <<>>
        /\ pw.reqs > 0 => pw.cookie

\* The sum of the energies charged and discharged of the blocks at the
\* indices of S.
RECURSIVE SumOfBlocks(_, _)
SumOfBlocks(blocks, S) ==
    IF S = {} THEN [charged |-> 0, discharged |-> 0]
    ELSE LET j == CHOOSE x \in S : TRUE
             rest == SumOfBlocks(blocks, S \ {j})
         IN  [charged |-> rest.charged + blocks[j + 1].EnergyCharged,
              discharged |-> rest.discharged + blocks[j + 1].EnergyDischarged]

(***************************************************************************)
(* C30. Whatever available_blocks and the length of battery_blocks of a    *)
(* parsed system_status, battery_blocks[i] is read only at indices below   *)
(* the length of the array, and the totals of the energy charged and       *)
(* discharged are the sums over the blocks read.  (As stated; the loop     *)
(* runs to available_blocks and indexes past the end of a shorter array.)  *)
(***************************************************************************)
C30_BlocksReadInRange ==
    /\ pw.blocks.index < Len(pw.sysstat.BatteryBlocks)
    /\ pw.blocks.totalCharged =
           SumOfBlocks(pw.sysstat.BatteryBlocks, pw.blocks.read).charged
    /\ pw.blocks.totalDischarged =
           SumOfBlocks(pw.sysstat.BatteryBlocks, pw.blocks.read).discharged

(***************************************************************************)
(* GetVehicles (gotesla.go:398-421) and GetGridStatus (powerwall.go:389-   *)
(* 419): the two getters that look at what they parsed before they return. *)
(* A body is [syntax, response, count, grid_status]: whether it is a JSON  *)
(* object whose members have the types of the structure, and its members.  *)
(* The call and its result are kept in http, as for the other getters.     *)
(***************************************************************************)
MaxVehicles == 2

\* The list of n vehicles.
VehicleList(n) == [j \in 1..n |-> [Id |-> j]]

NoBody == [syntax |-> "garbage", response |-> <<>>, count |-> 0,
           grid_status |-> ""]

VehicleBodies ==
    [syntax : {"object"},
     response : {VehicleList(n) : n \in 0..MaxVehicles},
     count : 0..MaxVehicles, grid_status : {""}]
    \cup {NoBody, [NoBody EXCEPT !.syntax = "mismatch"]}

\* const gridStatusUpString, gridStatusDownString,
\* gridStatusTransitionString (powerwall.go:370-372).
gridStatusUpString == "SystemGridConnected"

gridStatusDownString == "SystemIslandedActive"

gridStatusTransitionString == "SystemTransitionToGrid"

\* const ( GridStatusUnknown GridStatus = iota ... ) (powerwall.go:379-384).
GridStatusUnknown == 0

GridStatusDown == 1

GridStatusTransition == 2

GridStatusUp == 3

GridStrings ==
    {gridStatusUpString, gridStatusDownString, gridStatusTransitionString,
     "SystemMicroGridFaulted", "systemgridconnected", ""}

GridBodies ==
    [syntax : {"object"}, response : {<<>>}, count : {0},
     grid_status : GridStrings]
    \cup {NoBody, [NoBody EXCEPT !.syntax = "mismatch"]}

QueryResponses(bodies) ==
    {[do |-> FALSE, status |-> 0, body |-> NoBody, read |-> FALSE]} \cup
    [do : {TRUE}, status : {200, 401, 500}, body : bodies, read : BOOLEAN]

\* json.Unmarshal(body, &vr) and json.Unmarshal(body, &gsr): the members
\* of the document, or the error.
JsonMembers(b) ==
    CASE b.syntax = "object" -> [v |-> <<b>>, err |-> <<>>]
      [] b.syntax = "mismatch" -> [v |-> <<>>, err |-> <<"json: type">>]
      [] OTHER -> [v |-> <<>>, err |-> <<"json: syntax">>]

\* GetVehicles as it would be without the look at Count.
GetVehiclesUnchecked(resp) ==
    LET r == GetTesla(resp) IN
    IF r.err # <<>> THEN [v |-> <<>>, err |-> r.err, reqs |-> r.reqs]
    ELSE LET vr == JsonMembers(r.v[1]) IN
         IF vr.err # <<>> THEN [v |-> <<>>, err |-> vr.err, reqs |-> r.reqs]
         ELSE [v |-> <<vr.v[1].response>>, err |-> <<>>, reqs |-> r.reqs]

\* GetVehicles (gotesla.go:398-421).
GetVehicles(resp) ==
    LET r == GetTesla(resp) IN
    IF r.err # <<>> THEN [v |-> <<>>, err |-> r.err, reqs |-> r.reqs]
    ELSE LET vr == JsonMembers(r.v[1]) IN
         IF vr.err # <<>> THEN [v |-> <<>>, err |-> vr.err, reqs |-> r.reqs]
         ELSE IF Len(vr.v[1].response) # vr.v[1].count
         THEN [v |-> <<>>,
               err |-> <<"get_vehicles Response length %d != Count %d">>,
               reqs |-> r.reqs]
         ELSE [v |-> <<vr.v[1].response>>, err |-> <<>>, reqs |-> r.reqs]

\* The switch as it would be with the cases of down and transition
\* exchanged.
GridStatusOfExchanged(s) ==
    CASE s = gridStatusUpString -> GridStatusUp
      [] s = gridStatusDownString -> GridStatusTransition
      [] s = gridStatusTransitionString -> GridStatusDown
      [] OTHER -> GridStatusUnknown

\* var gs = GridStatusUnknown; switch gsr.GridStatus { ... }
\* (powerwall.go:408-416).
GridStatusOf(s) ==
    CASE s = gridStatusUpString -> GridStatusUp
      [] s = gridStatusDownString -> GridStatusDown
      [] s = gridStatusTransitionString -> GridStatusTransition
      [] OTHER -> GridStatusUnknown

\* GetGridStatus (powerwall.go:389-419).
GetGridStatus(resp) ==
    LET r == GetPowerwall(resp) IN
    IF r.err # <<>>
    THEN [v |-> <<GridStatusUnknown>>, err |-> r.err, reqs |-> r.reqs]
    ELSE LET gsr == JsonMembers(r.v[1]) IN
         IF gsr.err # <<>>
         THEN [v |-> <<GridStatusUnknown>>, err |-> gsr.err, reqs |-> r.reqs]
         ELSE [v |-> <<GridStatusOf(gsr.v[1].grid_status)>>, err |-> <<>>,
               reqs |-> r.reqs]

CallGetVehicles ==
    /\ \E resp \in QueryResponses(VehicleBodies) :
        http' = [fn |-> "GetVehicles", resp |-> resp, ret |-> GetVehicles(resp)]
    /\ UNCHANGED <<vitalsVars, cacheVars, now, chk, sc, pw>>

CallGetGridStatus ==
    /\ \E resp \in QueryResponses(GridBodies) :
        http' = [fn |-> "GetGridStatus", resp |-> resp,
                 ret |-> GetGridStatus(resp)]
    /\ UNCHANGED <<vitalsVars, cacheVars, now, chk, sc, pw>>

InitQuery ==
    /\ Idle /\ din = <<>> /\ cls = "" /\ CacheAtRest
    /\ now = 0 /\ chk = <<>> /\ sc = <<>> /\ pw = <<>>
    /\ http = [fn |-> "",
               resp |-> [do |-> FALSE, status |-> 0, body |-> NoBody,
                         read |-> FALSE],
               ret |-> [v |-> <<>>, err |-> <<>>, reqs |-> 0]]

NextQuery == CallGetVehicles \/ CallGetGridStatus

SpecQuery == InitQuery /\ [][NextQuery]_vars

\* The response came, had status 200, was read to its end and parsed.
Parsed(resp) ==
    resp.do /\ resp.status = StatusOK /\ resp.read
    /\ resp.body.syntax = "object"

(***************************************************************************)
(* C23. GetVehicles returns the list of vehicles only when the number of   *)
(* entries of the response array equals the count of the response; when    *)
(* they differ it returns an error and a nil list.                         *)
(***************************************************************************)
C23_ListOnlyWhenCountMatches ==
    http.fn = "GetVehicles" =>
        /\ http.ret.v # <<>> =>
              /\ Len(http.resp.body.response) = http.resp.body.count
              /\ http.ret.v = <<http.resp.body.response>>
              /\ http.ret.err = <<>>
        /\ (Parsed(http.resp)
            /\ Len(http.resp.body.response) # http.resp.body.count) =>
              (http.ret.err # <<>> /\ http.ret.v = <<>>)
        /\ (Parsed(http.resp)
            /\ Len(http.resp.body.response) = http.resp.body.count) =>
              (http.ret.err = <<>> /\ http.ret.v = <<http.resp.body.response>>)

\* A response of two vehicles with a count of one got the error and no
\* list.
C23_Witness ==
    /\ http.fn = "GetVehicles"
    /\ Parsed(http.resp)
    /\ Len(http.resp.body.response) = 2
    /\ http.resp.body.count = 1
    /\ http.ret.v = <<>>
    /\ http.ret.err = <<"get_vehicles Response length %d != Count %d">>

(***************************************************************************)
(* C24. GetGridStatus maps every grid_status string: SystemGridConnected   *)
(* to GridStatusUp, SystemIslandedActive to GridStatusDown,                *)
(* SystemTransitionToGrid to GridStatusTransition, every other string to   *)
(* GridStatusUnknown, each with a nil error; a failure of the transport or *)
(* of the parse gives GridStatusUnknown with a non-nil error.              *)
(***************************************************************************)
C24_GridStatusTotal ==
    http.fn = "GetGridStatus" =>
        IF Parsed(http.resp)
        THEN /\ http.ret.err = <<>>
             /\ LET s == http.resp.body.grid_status IN
                /\ s = "SystemGridConnected" => http.ret.v = <<GridStatusUp>>
                /\ s = "SystemIslandedActive" => http.ret.v = <<GridStatusDown>>
                /\ s = "SystemTransitionToGrid" =>
                      http.ret.v = <<GridStatusTransition>>
                /\ s \notin {"SystemGridConnected", "SystemIslandedActive",
                             "SystemTransitionToGrid"} =>
                      http.ret.v = <<GridStatusUnknown>>
        ELSE http.ret.err # <<>> /\ http.ret.v = <<GridStatusUnknown>>

\* A string that is none of the three gave GridStatusUnknown and no error.
C24_Witness ==
    /\ http.fn = "GetGridStatus"
    /\ Parsed(http.resp)
    /\ http.resp.body.grid_status = "SystemMicroGridFaulted"
    /\ http.ret = [v |-> <<GridStatusUnknown>>, err |-> <<>>, reqs |-> 1]

(***************************************************************************)
(* Helpers of the claims on what a save leaves in the cache.               *)
(***************************************************************************)
\* What the file at TokenCachePath holds on the disk d: <<>> when there is
\* no such file.
CacheContent(d) ==
    IF d.dir[TokenCachePath] = 0 THEN <<>>
    ELSE <<d.files[d.dir[TokenCachePath]]>>

(***************************************************************************)
(* C25. With a single writer, no step of SaveCachedToken but the rename    *)
(* that succeeds changes the file at TokenCachePath, so a save that        *)
(* returns an error (of the write of the temporary file or of the rename)  *)
(* leaves there exactly what was there before the call; and the rename     *)
(* puts there a temporary file that was written to its end.                *)
(***************************************************************************)
C25_ErrorKeepsCache ==
    [][\A p \in Procs :
          /\ ((\E t \in SavedTokens : SaveOpen(p, t)) \/ SaveWrite(p)) =>
                CacheContent(disk') = CacheContent(disk)
          /\ (SaveRename(p) /\ proc'[p].ret.err # <<>>) =>
                CacheContent(disk') = CacheContent(disk)
          /\ (SaveRename(p) /\ proc'[p].ret.err = <<>>) =>
                /\ disk.files[disk.dir[NewPath]] = JsonMarshal(proc[p].t)
                /\ CacheContent(disk') = <<JsonMarshal(proc[p].t)>>
      ]_vars

\* A save of T1 over the cached T0 has failed in its second write: the
\* temporary file holds a part of T1, the cache file all of T0.
C25_Witness ==
    /\ proc[1].pc = "idle"
    /\ proc[1].ret = [op |-> "save", err |-> <<"write">>, t |-> <<>>]
    /\ proc[1].t = T1
    /\ proc[1].off > 0
    /\ disk.dir[NewPath] # 0
    /\ PartOfAToken(disk.files[disk.dir[NewPath]])
    /\ CacheContent(disk) = <<JsonMarshal(T0)>>

(***************************************************************************)
(* GetAndCacheToken and RefreshAndCacheToken called one after the other    *)
(* by one process (gotesla.go:90-214): the answer of the server to the     *)
(* POST and the step of the save that fails, if one does, are the inputs;  *)
(* the call and its result are kept in http.                               *)
(***************************************************************************)
\* GetToken (gotesla.go:90-103).
GetToken(resp) == tokenAuthCommon(resp)

\* GetAndCacheToken (gotesla.go:187-198).
GetAndCacheToken(d, resp, how) ==
    LET r == GetToken(resp) IN
    IF r.err # <<>> THEN [t |-> r.t, err |-> r.err, disk |-> d]
    ELSE LET saved == SaveCachedToken(d, r.t[1], how) IN
         [t |-> r.t, err |-> saved.err, disk |-> saved.disk]

CallGetAndCacheToken ==
    /\ http.calls < MaxOps
    /\ \E resp \in RefreshResponses, how \in {"ok", "write", "rename"} :
        LET r == GetAndCacheToken(disk, resp, how) IN
        /\ disk' = r.disk
        /\ http' = [fn |-> "GetAndCacheToken", resp |-> resp, how |-> how,
                    ret |-> [t |-> r.t, err |-> r.err],
                    calls |-> http.calls + 1]
    /\ UNCHANGED <<vitalsVars, proc, hist, now, chk, sc, pw>>

CallRefreshAndCacheToken ==
    /\ http.calls < MaxOps
    /\ \E token \in SavedTokens, resp \in RefreshResponses,
          how \in {"ok", "write", "rename"} :
        LET r == RefreshAndCacheToken(disk, token, resp, how) IN
        /\ disk' = r.disk
        /\ http' = [fn |-> "RefreshAndCacheToken", resp |-> resp, how |-> how,
                    ret |-> [t |-> r.t, err |-> r.err],
                    calls |-> http.calls + 1]
    /\ UNCHANGED <<vitalsVars, proc, hist, now, chk, sc, pw>>

InitAuth ==
    /\ Idle /\ din = <<>> /\ cls = ""
    /\ proc = <<>> /\ hist = <<>>
    /\ now = 0 /\ chk = <<>> /\ sc = <<>> /\ pw = <<>>
    /\ \E c \in CacheStarts : disk = c.disk
    /\ http = [fn |-> "",
               resp |-> [do |-> FALSE, status |-> 0, body |-> <<>>,
                         read |-> FALSE],
               how |-> "ok", ret |-> [t |-> <<>>, err |-> <<>>], calls |-> 0]

NextAuth == CallGetAndCacheToken \/ CallRefreshAndCacheToken

SpecAuth == InitAuth /\ [][NextAuth]_vars

\* The server answered with status 200 and a body that was read.
Granted(resp) == resp.do /\ resp.status = StatusOK /\ resp.read

(***************************************************************************)
(* C26. GetAndCacheToken and RefreshAndCacheToken replace the cached token *)
(* only with the token of a successful (HTTP 200) answer: when the server  *)
(* rejects the credentials or the refresh token an error is returned and   *)
(* the cache file keeps what it held.  (As stated; the body of a rejection *)
(* is parsed and saved as a token.)                                        *)
(***************************************************************************)
C26_CacheOnlyGrantedTokens ==
    [][(CallGetAndCacheToken \/ CallRefreshAndCacheToken) =>
          /\ ~Granted(http'.resp) =>
                /\ http'.ret.err # <<>>
                /\ CacheContent(disk') = CacheContent(disk)
          /\ CacheContent(disk') # CacheContent(disk) =>
                /\ Granted(http'.resp)
                /\ JsonUnmarshal(http'.resp.body).err = <<>>
                /\ CacheContent(disk') =
                       <<JsonMarshal(JsonUnmarshal(http'.resp.body).t[1])>>
      ]_vars

(***************************************************************************)
(* Helpers of the claims on the fields and the metadata of a record.       *)
(***************************************************************************)
\* The prefix of the dins held by a slot or collection of the aggregate.
PrefixOfTarget(o) ==
    CASE o = "STSTSM" -> Chars("STSTSM")
      [] o = "TESYNC" -> Chars("TESYNC")
      [] o = "TEMSA" -> Chars("TEMSA")
      [] o = "TETHCs" -> Chars("TETHC")
      [] o = "TEPODs" -> Chars("TEPOD")
      [] o = "TEPINVs" -> Chars("TEPINV")
      [] o = "PVACs" -> Chars("PVAC")
      [] o = "PVSs" -> Chars("PVS")
      [] o = "NEURIOs" -> Chars("NEURIO")
      [] OTHER -> Chars("TESLA")

\* The record r carries the din and the alerts of the entry e, and the din
\* starts with the prefix of the slot or collection o.
CarriesMetadataOf(r, e, o) ==
    /\ Len(r.Common.Din) >= Len(PrefixOfTarget(o))
    /\ SubSeq(r.Common.Din, 1, Len(PrefixOfTarget(o))) = PrefixOfTarget(o)
    /\ r.Common.Din = EntryDin(e)
    /\ r.Common.Alerts = e.Alerts

(***************************************************************************)
(* C28. Within one device of a class with fields, the iteration raises no  *)
(* error and every field ends with what the last vital of its name gives:  *)
(* its payload when the payload is of the type of the field, the zero      *)
(* value of that type when it is of another; earlier vitals of the name    *)
(* are overwritten.  (As stated; a vital without a name in the list aborts *)
(* the iteration.)                                                         *)
(***************************************************************************)
C28_LastVitalDecides ==
    [][(pc = "loop" /\ i < numd
        /\ ClassOf(EntryDin(devices[i + 1])) \notin {"unknown", "TESLA"})
       => /\ pc' = "loop"
          /\ i' = i + 1
          /\ LET o == outcomes'[i + 1]
                 table == TableOfTarget(o)
                 rec == IF o \in Singletons THEN vd'[o]
                        ELSE vd'[o][Len(vd'[o])]
             IN \A k \in 1..Len(table) :
                    rec[table[k][2]] =
                        ExpectedField(table[k], devices[i + 1].Vitals)]_vars

(***************************************************************************)
(* C29. Every record of the returned aggregate carries the metadata of the *)
(* entry it was built from: the Common.Din of each record of a collection  *)
(* and of each assigned slot is the din of that entry and starts with the  *)
(* prefix of its class, and its Common.Alerts are the alerts of that entry *)
(* and of no other.                                                        *)
(***************************************************************************)
C29_RecordsCarryOwnMetadata ==
    (pc = "returned" /\ out # <<>>) =>
        /\ \A c \in Collections :
              /\ Len(out[1][c]) = Cardinality(RoutedTo(c))
              /\ \A k \in RoutedTo(c) :
                    CarriesMetadataOf(
                        out[1][c][Cardinality({m \in RoutedTo(c) : m <= k})],
                        devices[k], c)
        /\ \A s \in Singletons :
              RoutedTo(s) # {} =>
                  CarriesMetadataOf(out[1][s], devices[MaxOf(RoutedTo(s))], s)

\* Three thermal controllers returned with an entry of another class and a
\* dropped entry with an alert between them: the second carries its own
\* alert, the first and the third none.
C29_Witness ==
    /\ pc = "returned" /\ out # <<>> /\ err = <<>>
    /\ Len(out[1].TETHCs) = 3
    /\ Dropped = 1
    /\ out[1].TETHCs[1].Common.Alerts = <<>>
    /\ out[1].TETHCs[2].Common.Alerts = <<"THC_w_155">>
    /\ out[1].TETHCs[3].Common.Alerts = <<>>
    /\ out[1].TETHCs[2].Common.Din = EntryDin(devices[3])
====
